---- MODULE Spec2Model ----
(***************************************************************************)
(* A model of the Jeux tic-tac-toe server: the service loop of server.c,   *)
(* the client sessions of client.c, the invitations of invitation.c, the   *)
(* game engine of game.c, the players of player.c and the two registries.  *)
(* Every service thread is a process whose steps are the points at which   *)
(* the C code touches shared memory: a step is one critical section (a     *)
(* mutex taken, the work under it, the mutex released) or, where the code  *)
(* blocks on a second mutex while it holds one, the part up to that point. *)
(***************************************************************************)
EXTENDS Integers, Sequences, FiniteSets, TLC

\* ------------------------------------------------------------------ bounds
NClients == 2
MaxInv == 2
NNames == 2
MaxRef == 3
NMains == 2
MaxWire == 4

\* --------------------------------------------------------------- constants
NULL == 0
NULL_ROLE == 0
FIRST_PLAYER_ROLE == 1
SECOND_PLAYER_ROLE == 2
MAX_BOARD_NUM == 9
MAX_CLIENTS == 64

Clients == 1..NClients
\* The threads that are not service threads: the main thread and the threads
\* that run the SIGHUP handler.  Tid(m) names one as the holder of a mutex.
Mains == 1..NMains
Tid(m) == NClients + m
InvIds == 1..MaxInv
\* Usernames are strings of characters; the k-th name is k letters long.
Name(k) == [j \in 1..k |-> "a"]
Names == {Name(k) : k \in 1..NNames}
Roles == {FIRST_PLAYER_ROLE, SECOND_PLAYER_ROLE}

VARIABLES
    crashed,      \* the process has died of a memory fault
    wire,         \* what has been written to the socket of each connection, in order
    creg,         \* CLIENT_REGISTRY: the list of registered clients, head first
    creg_mutex,   \* CLIENT_REGISTRY.mutex: the thread that holds it, or NULL
    P_flag,       \* CLIENT_REGISTRY.P_flag
    semaphore,    \* CLIENT_REGISTRY.semaphore: its value
    sock,         \* the socket of each connection: "open", or "shut" after shutdown(2)
    mpc,          \* the position of each thread of Mains
    mloc,         \* creg_shutdown_all's current and temp, as the clients of the nodes
    logged_in,    \* CLIENT.logged_in
    player,       \* CLIENT.player: an index into players, or NULL
    lock,         \* CLIENT.lock: the thread that holds it, or NULL
    cref,         \* CLIENT.ref_count
    list,         \* CLIENT.invitations_head: the invitations of the nodes, head first
    nid,          \* INVITATION_NODE.id of the node a client made for an invitation
    tnext,        \* INVITATION_NODE.next of a node, as it was when the node was freed
    inv,          \* the INVITATION objects, with their GAME
    ninv,         \* how many INVITATION objects have been allocated
    players,      \* PLAYER_REGISTRY: the PLAYER objects in creation order
    pc,           \* each service thread's position
    loc,          \* each service thread's local variables
    req,          \* the packet a service thread is working on
    tlog,         \* the packets a thread has sent since it read its request
    svc,          \* jeux_client_service's local logged_in
    hist          \* per invitation, the requests on it that returned success

shutVars == <<P_flag, semaphore, sock, mpc, mloc>>
regVars == <<creg, creg_mutex, shutVars>>
cliVars == <<logged_in, player, lock, cref>>
listVars == <<list, nid, tnext>>
invVars == <<inv, ninv, hist>>
thrVars == <<pc, loc, req, tlog, svc>>
vars == <<crashed, wire, regVars, cliVars, listVars, invVars, players, thrVars>>

\* ----------------------------------------------------------------- helpers
Range(s) == {s[k] : k \in 1..Len(s)}
Remove(s, x) == SelectSeq(s, LAMBDA y : y # x)
IndexOf(s, x) == CHOOSE k \in 1..Len(s) : s[k] = x

NoReq == [type |-> "NONE", id |-> 0, role |-> 0, payload |-> <<>>]
NoInv ==
    [alloc |-> "none", ref_count |-> 0, sender |-> NULL, recipient |-> NULL,
     source_role |-> NULL_ROLE, target_role |-> NULL_ROLE, state |-> "NONE",
     game |-> <<>>]
Loc0 ==
    [inv |-> NULL, target |-> NULL, source_role |-> NULL_ROLE,
     target_role |-> NULL_ROLE, player |-> NULL, client_id |-> -1,
     peer_id |-> -1, winner |-> NULL_ROLE, ack_id |-> 0, ack_data |-> <<>>,
     fr |-> 0, fi |-> NULL, cascade |-> FALSE, node |-> NULL, next |-> NULL,
     id |-> 0, resign |-> FALSE]

\* ------------------------------------------------------------- player.c
player_get_name(p) == players[p].name

\* player_registry.c: the PLAYER registered under a name, or NULL
preg_find(name) ==
    IF \E p \in 1..Len(players) : players[p].name = name
    THEN CHOOSE p \in 1..Len(players) : players[p].name = name
    ELSE NULL

player_create(name) == [name |-> name, ref_count |-> 1, games |-> 0, score2 |-> 0]

player_ref(ps, p) == [ps EXCEPT ![p].ref_count = @ + 1]
player_unref(ps, p) == [ps EXCEPT ![p].ref_count = @ - 1]

\* player_post_result: the scores the two players are given.  The model keeps
\* the number of games and twice the sum of the scores in place of the rating.
Score2(result, first) ==
    IF result = 0 THEN 1
    ELSE IF result = 1 THEN (IF first THEN 2 ELSE 0)
    ELSE (IF first THEN 0 ELSE 2)
player_post_result(ps, p1, p2, result) ==
    IF result \notin {0, 1, 2} THEN ps
    ELSE LET a == [ps EXCEPT ![p1].games = @ + 1,
                             ![p1].score2 = @ + Score2(result, TRUE)]
         IN  [a EXCEPT ![p2].games = @ + 1, ![p2].score2 = @ + Score2(result, FALSE)]

\* preg_register: the registry after the call; the PLAYER returned is
\* preg_find(name) in it.
preg_register(name) ==
    IF preg_find(name) # NULL
    THEN player_ref(players, preg_find(name))
    ELSE Append(players, [player_create(name) EXCEPT !.ref_count = 2])

\* ------------------------------------------------------------- client.c
client_get_player(c) == IF logged_in[c] THEN player[c] ELSE NULL

\* client_registry.c: creg_all_players, the PLAYERs of the registered clients
creg_all_players ==
    SelectSeq([k \in 1..Len(creg) |-> client_get_player(creg[k])],
              LAMBDA p : p # NULL)

\* server.c / client.c: does a client in the registry use this name
check_if_other_clients_logged_in_with_same_name(name) ==
    \E k \in 1..Len(creg_all_players) :
        player_get_name(creg_all_players[k]) = name

\* creg_lookup: the first registered client logged in under the name
\* a creg_lookup that returns the first registered client
creg_lookup_first(user) == creg[1]

creg_lookup(user) ==
    IF user # <<>> /\ \E k \in 1..Len(creg) :
           client_get_player(creg[k]) # NULL
           /\ player_get_name(client_get_player(creg[k])) = user
    THEN creg[CHOOSE k \in 1..Len(creg) :
              /\ client_get_player(creg[k]) # NULL
              /\ player_get_name(client_get_player(creg[k])) = user
              /\ \A j \in 1..(k - 1) :
                    client_get_player(creg[j]) = NULL
                    \/ player_get_name(client_get_player(creg[j])) # user]
    ELSE NULL

\* --------------------------------------------------------------- game.c
game_create ==
    [board |-> [k \in 1..MAX_BOARD_NUM |-> 0], turn_X |-> 1, num_turns |-> 0,
     winner |-> NULL_ROLE, terminated |-> 0]

Lines ==
    {<<1, 2, 3>>, <<4, 5, 6>>, <<7, 8, 9>>, <<1, 4, 7>>, <<2, 5, 8>>, <<3, 6, 9>>,
     <<1, 5, 9>>, <<3, 5, 7>>}
win(board, p) == \E l \in Lines : \A k \in 1..3 : board[l[k]] = p

Digits == <<"1", "2", "3", "4", "5", "6", "7", "8", "9">>
IsDigit19(ch) == \E d \in 1..9 : Digits[d] = ch
DigitVal(ch) == CHOOSE d \in 1..9 : Digits[d] = ch

NoMove == [player |-> 0, square |-> 0]
\* game_parse_move: the GAME_MOVE a string stands for, or NoMove (NULL)
game_parse_move(g, role, str) ==
    IF role # NULL_ROLE
       /\ ((role = FIRST_PLAYER_ROLE /\ g.turn_X = 0)
           \/ (role = SECOND_PLAYER_ROLE /\ g.turn_X # 0))
    THEN NoMove
    ELSE IF Len(str) = 1
    THEN IF ~IsDigit19(str[1]) THEN NoMove
         ELSE [player |-> IF role = FIRST_PLAYER_ROLE THEN 1 ELSE 2,
               square |-> DigitVal(str[1])]
    ELSE IF Len(str) = 4
    THEN IF ~IsDigit19(str[1]) THEN NoMove
         ELSE IF str[2] # "<" \/ str[3] # "-" \/ (str[4] # "X" /\ str[4] # "O")
         THEN NoMove
         ELSE [player |-> IF str[4] = "X" THEN 1 ELSE 2, square |-> DigitVal(str[1])]
    ELSE NoMove

\* a game_apply_move that tests nothing
game_move_any(g, m) == TRUE

game_move_legal(g, m) ==
    ~(\/ m.square < 1 \/ m.square > 9
      \/ g.board[m.square] # 0
      \/ (m.player = 1 /\ g.turn_X # 1)
      \/ (m.player = 2 /\ g.turn_X # 0)
      \/ g.terminated # 0)

\* game_apply_move, for a legal move
game_apply_move(g, m) ==
    LET b == [g.board EXCEPT ![m.square] = m.player]
        w == IF win(b, 2) THEN SECOND_PLAYER_ROLE
             ELSE IF win(b, 1) THEN FIRST_PLAYER_ROLE ELSE g.winner
        n == g.num_turns + 1
    IN  [board |-> b, turn_X |-> IF g.turn_X # 0 THEN 0 ELSE 1, num_turns |-> n,
         winner |-> w,
         terminated |-> IF win(b, 1) \/ win(b, 2) \/ n >= 9 THEN 1 ELSE g.terminated]

\* game_resign: the test of terminated is made outside the lock of the game,
\* the two writes under it
game_resign_ok(g) == g.terminated = 0
game_resign_write(g, role) ==
    [g EXCEPT !.terminated = 1,
              !.winner = IF role = FIRST_PLAYER_ROLE THEN SECOND_PLAYER_ROLE
                         ELSE FIRST_PLAYER_ROLE]
game_resign(g, role) == IF game_resign_ok(g) THEN game_resign_write(g, role) ELSE g

game_is_over(g) == IF g.terminated # 0 THEN 1 ELSE 0

game_get_winner(g) ==
    IF g.terminated # 0 THEN g.winner
    ELSE IF win(g.board, 1) THEN FIRST_PLAYER_ROLE
    ELSE IF win(g.board, 2) THEN SECOND_PLAYER_ROLE
    ELSE NULL_ROLE

Mark(v) == IF v = 0 THEN " " ELSE IF v = 1 THEN "X" ELSE "O"
\* game_unparse_state: the pieces strcat puts together
game_unparse_state(g) ==
    <<Mark(g.board[1]), "|", Mark(g.board[2]), "|", Mark(g.board[3]), "\n", "-----\n",
      Mark(g.board[4]), "|", Mark(g.board[5]), "|", Mark(g.board[6]), "\n", "-----\n",
      Mark(g.board[7]), "|", Mark(g.board[8]), "|", Mark(g.board[9]), "\n",
      "It's ", IF g.turn_X # 0 THEN "X" ELSE "O", "'s turn\n">>

\* --------------------------------------------------------- invitation.c
HasGame(v) == v.game # <<>>
Game(v) == v.game[1]

\* an inv_create that stores the two roles the other way round
inv_create_swapped(source, target, source_role, target_role) ==
    [alloc |-> "live", ref_count |-> 1, sender |-> source, recipient |-> target,
     source_role |-> target_role, target_role |-> source_role, state |-> "OPEN",
     game |-> <<>>]

inv_create(source, target, source_role, target_role) ==
    [alloc |-> "live", ref_count |-> 1, sender |-> source, recipient |-> target,
     source_role |-> source_role, target_role |-> target_role, state |-> "OPEN",
     game |-> <<>>]

inv_accept_ok(v) == v.state = "OPEN"
inv_accept(v) ==
    IF inv_accept_ok(v)
    THEN [v EXCEPT !.state = "ACCEPTED", !.game = <<game_create>>]
    ELSE v

\* an inv_close that does not look at the state
inv_close_always(v, role) == ~(role = NULL_ROLE /\ HasGame(v))

inv_close_ok(v, role) ==
    /\ ~(role = NULL_ROLE /\ HasGame(v))
    /\ v.state \in {"OPEN", "ACCEPTED"}
inv_close(v, role) ==
    IF inv_close_ok(v, role)
    THEN [v EXCEPT !.state = "CLOSED",
                   !.game = IF v.state = "ACCEPTED" /\ HasGame(v)
                            THEN <<game_resign(Game(v), role)>> ELSE @]
    ELSE v

\* ------------------------------------------------- client.c: the lists
InList(c, i) == i \in Range(list[c])
UsedIds(c) == {nid[c][i] : i \in Range(list[c])}
id_exists_in_client_invitation(c, id) == id \in UsedIds(c)
\* a find_lowest_id_availalble that does not look at the list
find_zero(c) == 0

find_lowest_id_availalble(c) ==
    CHOOSE i \in 0..Len(list[c]) :
        /\ ~id_exists_in_client_invitation(c, i)
        /\ \A j \in 0..(i - 1) : id_exists_in_client_invitation(c, j)

\* the search loops of client.c: the invitation of the first node with the id
NodeById(c, id) ==
    IF \E k \in 1..Len(list[c]) : nid[c][list[c][k]] = id
    THEN list[c][CHOOSE k \in 1..Len(list[c]) :
                    /\ nid[c][list[c][k]] = id
                    /\ \A j \in 1..(k - 1) : nid[c][list[c][j]] # id]
    ELSE NULL

\* INVITATION_NODE.next of a node that is in the list
NextOf(c, i) ==
    LET k == IndexOf(list[c], i)
    IN  IF k < Len(list[c]) THEN list[c][k + 1] ELSE NULL

\* ------------------------------------------------------------ the threads
Frame(type, to, id, role, data, i) ==
    [type |-> type, to |-> to, id |-> id, role |-> role, data |-> data, inv |-> i]

\* Where an operation of client.c goes when it returns to its caller: the
\* switch of jeux_client_service answers, the loop of client_logout goes on.
Return(t, val) ==
    IF loc[t].cascade THEN "lo_next" ELSE IF val = 0 THEN "ack" ELSE "nack"

\* the process dies of a memory fault
Crash ==
    /\ crashed' = TRUE
    /\ UNCHANGED <<wire, regVars, cliVars, listVars, invVars, players, thrVars>>

\* A freed INVITATION: reading it is undefined, the thread reads what the
\* memory held or the process dies.
InvFreed(i) == inv[i].alloc = "freed"
\* What a read of node->id can yield: the id of a node that is in the list;
\* where the node has been freed, what it held or what the allocator wrote
\* over it, here an id that no node of the model holds.
GarbageIds == {MaxInv}
NodeIdRead(c, i) == IF InList(c, i) THEN {nid[c][i]} ELSE {nid[c][i]} \cup GarbageIds

\* client_unref, the part on the PLAYER when the CLIENT is freed
client_unref_players(c) ==
    IF cref[c] = 1 /\ player[c] # NULL THEN player_unref(players, player[c])
    ELSE players

\* a client_add_invitation that loses the node
AddListLost(c, i) == list

\* client_add_invitation: the list after the insertion at the head
AddList(c, i) == [list EXCEPT ![c] = <<i>> \o @]
AddNid(c, i) == [nid EXCEPT ![c][i] = find_lowest_id_availalble(c)]

\* INVITE frames are read only while an INVITATION can still be allocated
Allocating == {t \in Clients : req[t].type = "INVITE" /\ loc[t].inv = NULL
                               /\ pc[t] \notin {"nack", "ack", "brk"}}
\* and an INVITE whose role byte is no role, which leaves the reference of
\* creg_lookup on the target, only while the counts are below MaxRef
Allowed(r) ==
    /\ r.type = "INVITE" => ninv + Cardinality(Allocating) < MaxInv
    /\ (r.type = "INVITE" /\ r.role \notin Roles) => \A d \in Clients : cref[d] < MaxRef

\* a switch that takes LOGIN from a session that is logged in
LoginGateOpen(c, r) == "lg_chk1"

LoginGate(c, r) == IF svc[c] THEN "nack" ELSE "lg_chk1"

\* the packet types that have a case with a reply in the switch
ClientTypes ==
    {"LOGIN", "USERS", "INVITE", "REVOKE", "ACCEPT", "DECLINE", "MOVE", "RESIGN"}

Dispatch(c, r) ==
    CASE r.type = "LOGIN" -> LoginGate(c, r)
      [] r.type \notin ClientTypes -> "brk"
      [] ~svc[c] -> "nack"
      [] r.type = "USERS" -> "us_snap"
      [] r.type = "INVITE" -> "iv_lk1"
      [] r.type = "REVOKE" -> "rv_chk"
      [] r.type = "DECLINE" -> "dc_chk"
      [] r.type = "ACCEPT" -> "ac_lock"
      [] r.type = "MOVE" -> "mv_lock"
      [] r.type = "RESIGN" -> "rs_lock"
      [] OTHER -> "brk"

\* creg_init, and no thread in terminate or in creg_wait_for_empty yet
NoShutdown ==
    /\ P_flag = 0
    /\ semaphore = 0
    /\ sock = [c \in Clients |-> "open"]
    /\ mpc = [m \in Mains |-> "idle"]
    /\ mloc = [m \in Mains |-> [current |-> NULL, temp |-> NULL, term |-> FALSE,
                                  out |-> {}]]

Init ==
    /\ crashed = FALSE
    /\ wire = [c \in Clients |-> <<>>]
    /\ creg = <<>>
    /\ creg_mutex = NULL
    /\ NoShutdown
    /\ logged_in = [c \in Clients |-> FALSE]
    /\ player = [c \in Clients |-> NULL]
    /\ lock = [c \in Clients |-> NULL]
    /\ cref = [c \in Clients |-> 0]
    /\ list = [c \in Clients |-> <<>>]
    /\ nid = [c \in Clients |-> [i \in InvIds |-> -1]]
    /\ tnext = [c \in Clients |-> [i \in InvIds |-> NULL]]
    /\ inv = [i \in InvIds |-> NoInv]
    /\ ninv = 0
    /\ players = <<>>
    /\ pc = [c \in Clients |-> "start"]
    /\ loc = [c \in Clients |-> Loc0]
    /\ req = [c \in Clients |-> NoReq]
    /\ tlog = [c \in Clients |-> <<>>]
    /\ svc = [c \in Clients |-> FALSE]
    /\ hist = [i \in InvIds |-> {}]

\* creg_register refuses a new client when the registry is full
creg_full_late == Len(creg) > MAX_CLIENTS
creg_full == Len(creg) >= MAX_CLIENTS

\* creg_register, from the start of jeux_client_service
Register(c) ==
    /\ ~crashed /\ pc[c] = "start" /\ creg_mutex = NULL
    /\ IF c \in Range(creg) \/ creg_full
       THEN pc' = [pc EXCEPT ![c] = "exit"] /\ UNCHANGED <<creg, cref>>
       ELSE /\ creg' = <<c>> \o creg
            /\ cref' = [cref EXCEPT ![c] = 1]
            /\ pc' = [pc EXCEPT ![c] = "read"]
    /\ UNCHANGED <<crashed, wire, creg_mutex, shutVars, logged_in, player, lock, listVars,
                   invVars, players, loc, req, tlog, svc>>

\* proto_recv_packet returns a packet and the switch dispatches on its type
Recv(c, menu) ==
    /\ ~crashed /\ pc[c] = "read"
    /\ \E r \in menu :
        /\ Allowed(r)
        /\ req' = [req EXCEPT ![c] = r]
        /\ pc' = [pc EXCEPT ![c] = Dispatch(c, r)]
        /\ loc' = [loc EXCEPT ![c].id = r.id]
    /\ tlog' = [tlog EXCEPT ![c] = <<>>]
    /\ UNCHANGED <<crashed, wire, regVars, cliVars, listVars, invVars, players, svc>>

\* client_send_packet: the frame goes out under the receiver's lock
CanSend_always(to) == TRUE
CanSend(to) == lock[to] = NULL
Sent(t, f) == [tlog EXCEPT ![t] = Append(@, f)]

\* The connection of c has ended and its thread is on its way out: a write to
\* the socket of c may fail, and proto_send_packet then returns -1.  The log
\* of the thread keeps the failed write as an EPIPE entry.
Hangup(c) ==
    loc[c].cascade \/ pc[c] \in {"lo_chk", "lo_loop", "lo_next", "unreg", "unreg2", "exit"}
Failed(t, to, i) == Sent(t, Frame("EPIPE", to, 0, 0, <<>>, i))

\* client_send_ack, client_send_nack and the end of the switch
Reply(c) ==
    /\ ~crashed /\ loc[c].fr = 0
    /\ pc[c] \in {"ack", "nack", "brk"}
    /\ CASE pc[c] = "nack" ->
              /\ CanSend(c)
              /\ tlog' = Sent(c, Frame("NACK", c, 0, 0, <<>>, NULL))
              /\ pc' = [pc EXCEPT ![c] = "brk"]
              /\ UNCHANGED <<loc, req>>
         [] pc[c] = "ack" ->
              /\ CanSend(c)
              /\ tlog' = Sent(c, Frame("ACK", c, loc[c].ack_id, 0, loc[c].ack_data, NULL))
              /\ pc' = [pc EXCEPT ![c] = "brk"]
              /\ UNCHANGED <<loc, req>>
         [] pc[c] = "brk" ->
              /\ pc' = [pc EXCEPT ![c] = "read"]
              /\ loc' = [loc EXCEPT ![c] = Loc0]
              /\ req' = [req EXCEPT ![c] = NoReq]
              /\ tlog' = [tlog EXCEPT ![c] = <<>>]
    /\ UNCHANGED <<crashed, wire, regVars, cliVars, listVars, invVars, players, svc>>

\* case JEUX_LOGIN_PKT of jeux_client_service, with client_login
Login(c) ==
    /\ ~crashed
    /\ pc[c] \in {"lg_chk1", "lg_preg", "lg_lock", "lg_chk2", "lg_set"}
    /\ CASE pc[c] = "lg_chk1" ->
              /\ creg_mutex = NULL
              /\ pc' = [pc EXCEPT ![c] =
                    IF check_if_other_clients_logged_in_with_same_name(req[c].payload)
                    THEN "nack" ELSE "lg_preg"]
              /\ UNCHANGED <<loc, players, lock, logged_in, player, svc>>
         [] pc[c] = "lg_preg" ->
              /\ players' = preg_register(req[c].payload)
              /\ loc' = [loc EXCEPT ![c].player =
                    IF preg_find(req[c].payload) # NULL
                    THEN preg_find(req[c].payload) ELSE Len(players) + 1]
              /\ pc' = [pc EXCEPT ![c] = "lg_lock"]
              /\ UNCHANGED <<lock, logged_in, player, svc>>
         [] pc[c] = "lg_lock" ->
              /\ lock[c] = NULL
              /\ IF logged_in[c]
                 THEN pc' = [pc EXCEPT ![c] = "nack"] /\ UNCHANGED lock
                 ELSE /\ lock' = [lock EXCEPT ![c] = c]
                      /\ pc' = [pc EXCEPT ![c] = "lg_chk2"]
              /\ UNCHANGED <<loc, players, logged_in, player, svc>>
         [] pc[c] = "lg_chk2" ->
              /\ creg_mutex = NULL
              /\ IF check_if_other_clients_logged_in_with_same_name(
                        player_get_name(loc[c].player))
                 THEN /\ lock' = [lock EXCEPT ![c] = NULL]
                      /\ pc' = [pc EXCEPT ![c] = "nack"]
                 ELSE /\ pc' = [pc EXCEPT ![c] = "lg_set"]
                      /\ UNCHANGED lock
              /\ UNCHANGED <<loc, players, logged_in, player, svc>>
         [] pc[c] = "lg_set" ->
              /\ logged_in' = [logged_in EXCEPT ![c] = TRUE]
              /\ player' = [player EXCEPT ![c] = loc[c].player]
              /\ players' = player_ref(players, loc[c].player)
              /\ lock' = [lock EXCEPT ![c] = NULL]
              /\ svc' = [svc EXCEPT ![c] = TRUE]
              /\ pc' = [pc EXCEPT ![c] = "ack"]
              /\ UNCHANGED loc
    /\ UNCHANGED <<crashed, wire, regVars, cref, listVars, invVars, req, tlog>>

\* The thread goes on with a loc, a pc and a log; nothing else changes.
Step(t, l, p) ==
    /\ loc' = [loc EXCEPT ![t] = l]
    /\ pc' = [pc EXCEPT ![t] = p]

\* inv_unref: the count goes down; at zero the thread starts to free
Unref(i) == [inv EXCEPT ![i].ref_count = @ - 1]
Freeing(t, i) == IF inv[i].ref_count = 1 THEN [loc[t] EXCEPT !.fr = 1, !.fi = i]
                 ELSE loc[t]

\* inv_unref at zero: client_unref of the sender, then client_unref of the
\* recipient, game_unref and free
FreeInv(t) ==
    /\ ~crashed /\ loc[t].fr # 0
    /\ LET i == loc[t].fi
       IN  IF loc[t].fr = 1
           THEN /\ lock[inv[i].sender] = NULL
                /\ cref' = [cref EXCEPT ![inv[i].sender] = @ - 1]
                /\ players' = client_unref_players(inv[i].sender)
                /\ loc' = [loc EXCEPT ![t].fr = 2]
                /\ UNCHANGED inv
           ELSE /\ lock[inv[i].recipient] = NULL
                /\ cref' = [cref EXCEPT ![inv[i].recipient] = @ - 1]
                /\ players' = client_unref_players(inv[i].recipient)
                /\ loc' = [loc EXCEPT ![t].fr = 0]
                /\ inv' = [inv EXCEPT ![i].alloc = "freed"]
    /\ UNCHANGED <<crashed, wire, regVars, logged_in, player, lock, listVars, ninv,
                   hist, pc, req, tlog, svc>>

\* case JEUX_INVITE_PKT of jeux_client_service, with creg_lookup and
\* client_make_invitation
Invite(c) ==
    /\ ~crashed /\ loc[c].fr = 0
    /\ pc[c] \in {"iv_lk1", "iv_lk2", "iv_self", "mi_create", "mi_create2",
                  "mi_add_s", "mi_add_t", "mi_lock", "mi_send", "mi_unlock",
                  "iv_unref"}
    /\ LET l == loc[c]
           i == loc[c].inv
           tg == loc[c].target
       IN
       CASE pc[c] = "iv_lk1" ->
              /\ creg_mutex = NULL
              /\ IF creg_lookup(req[c].payload) = NULL
                 THEN Step(c, l, "nack") /\ UNCHANGED creg_mutex
                 ELSE /\ creg_mutex' = c
                      /\ Step(c, [l EXCEPT !.target = creg_lookup(req[c].payload)],
                              "iv_lk2")
              /\ UNCHANGED <<cliVars, listVars, invVars, players, tlog>>
         [] pc[c] = "iv_lk2" ->
              /\ lock[tg] = NULL
              /\ cref' = [cref EXCEPT ![tg] = @ + 1]
              /\ creg_mutex' = NULL
              /\ IF tg = c THEN Step(c, l, "iv_self")
                 ELSE IF req[c].role = 1
                 THEN Step(c, [l EXCEPT !.source_role = SECOND_PLAYER_ROLE,
                                        !.target_role = FIRST_PLAYER_ROLE], "mi_create")
                 ELSE IF req[c].role = 2
                 THEN Step(c, [l EXCEPT !.source_role = FIRST_PLAYER_ROLE,
                                        !.target_role = SECOND_PLAYER_ROLE], "mi_create")
                 ELSE Step(c, l, "nack")
              /\ UNCHANGED <<logged_in, player, lock, listVars, invVars, players, tlog>>
         [] pc[c] = "iv_self" ->
              /\ lock[c] = NULL
              /\ cref' = [cref EXCEPT ![c] = @ - 1]
              /\ Step(c, l, "nack")
              /\ UNCHANGED <<creg_mutex, logged_in, player, lock, listVars, invVars,
                             players, tlog>>
         [] pc[c] = "mi_create" ->
              /\ lock[c] = NULL
              /\ ninv' = ninv + 1
              /\ inv' = [inv EXCEPT ![ninv + 1] =
                            inv_create(c, tg, l.source_role, l.target_role)]
              /\ cref' = [cref EXCEPT ![c] = @ + 1]
              /\ Step(c, [l EXCEPT !.inv = ninv + 1], "mi_create2")
              /\ UNCHANGED <<creg_mutex, logged_in, player, lock, listVars, hist,
                             players, tlog>>
         [] pc[c] = "mi_create2" ->
              /\ lock[tg] = NULL
              /\ cref' = [cref EXCEPT ![tg] = @ + 1]
              /\ Step(c, l, "mi_add_s")
              /\ UNCHANGED <<creg_mutex, logged_in, player, lock, listVars, invVars,
                             players, tlog>>
         [] pc[c] = "mi_add_s" ->
              /\ lock[c] = NULL
              /\ list' = AddList(c, i) /\ nid' = AddNid(c, i)
              /\ inv' = [inv EXCEPT ![i].ref_count = @ + 1]
              /\ Step(c, l, "mi_add_t")
              /\ UNCHANGED <<creg_mutex, cliVars, tnext, ninv, hist, players, tlog>>
         [] pc[c] = "mi_add_t" ->
              /\ lock[tg] = NULL
              /\ list' = AddList(tg, i) /\ nid' = AddNid(tg, i)
              /\ inv' = [inv EXCEPT ![i].ref_count = @ + 1]
              /\ \E v \in NodeIdRead(c, i) :
                    Step(c, [l EXCEPT !.client_id = v], "mi_lock")
              /\ UNCHANGED <<creg_mutex, cliVars, tnext, ninv, hist, players, tlog>>
         [] pc[c] = "mi_lock" ->
              /\ lock[c] = NULL
              /\ lock' = [lock EXCEPT ![c] = c]
              /\ \E v \in NodeIdRead(tg, i) :
                    Step(c, [l EXCEPT !.peer_id = v], "mi_send")
              /\ UNCHANGED <<creg_mutex, logged_in, player, cref, listVars, invVars,
                             players, tlog>>
         [] pc[c] = "mi_send" ->
              LET source_name == player_get_name(client_get_player(c))
              IN  /\ CanSend(tg)
                  /\ \/ /\ Len(source_name) = 0 \/ Hangup(tg)
                        /\ tlog' = Failed(c, tg, i)
                        /\ lock' = [lock EXCEPT ![c] = NULL]
                        /\ Step(c, l, "nack")
                        /\ UNCHANGED inv
                     \/ /\ Len(source_name) # 0
                        /\ tlog' = Sent(c, Frame("INVITED", tg, l.peer_id,
                                                 l.target_role, source_name, i))
                        /\ inv' = Unref(i)
                        /\ IF inv[i].ref_count = 1
                           THEN Step(c, Freeing(c, i), "mi_unlock") /\ UNCHANGED lock
                           ELSE /\ lock' = [lock EXCEPT ![c] = NULL]
                                /\ Step(c, l, "iv_unref")
                  /\ UNCHANGED <<creg_mutex, logged_in, player, cref, listVars, ninv,
                                 hist, players>>
         [] pc[c] = "mi_unlock" ->
              /\ lock' = [lock EXCEPT ![c] = NULL]
              /\ Step(c, l, "iv_unref")
              /\ UNCHANGED <<creg_mutex, logged_in, player, cref, listVars, invVars,
                             players, tlog>>
         [] pc[c] = "iv_unref" ->
              /\ lock[tg] = NULL
              /\ cref' = [cref EXCEPT ![tg] = @ - 1]
              /\ players' = client_unref_players(tg)
              /\ hist' = [hist EXCEPT ![i] = @ \cup {"INVITE"}]
              /\ Step(c, [l EXCEPT !.ack_id = l.client_id], "ack")
              /\ UNCHANGED <<creg_mutex, logged_in, player, lock, listVars, inv, ninv,
                             tlog>>
    /\ UNCHANGED <<crashed, wire, creg, shutVars, req, svc>>

\* client_remove_invitation(c, i) by thread t: the node is unlinked under the
\* lock of c and the INVITATION loses a reference; p is where the caller goes
\* on, and keep says whether it keeps the id returned.
client_remove_invitation(t, c, i, p, keep) ==
    /\ lock[c] = NULL
    /\ IF InList(c, i)
       THEN /\ list' = [list EXCEPT ![c] = Remove(@, i)]
            /\ tnext' = [tnext EXCEPT ![c][i] = NextOf(c, i)]
            /\ inv' = Unref(i)
            /\ Step(t, [Freeing(t, i) EXCEPT
                           !.peer_id = IF keep THEN nid[c][i] ELSE @,
                           !.target = IF keep THEN c ELSE @], p)
       ELSE /\ Step(t, loc[t], Return(t, -1))
            /\ UNCHANGED <<list, tnext, inv>>
    /\ UNCHANGED <<crashed, wire, regVars, cliVars, nid, ninv, hist, players, req, tlog, svc>>

Succeed(i, what) == [hist EXCEPT ![i] = @ \cup {what}]

\* client_revoke_invitation
Revoke(c) ==
    /\ ~crashed /\ loc[c].fr = 0
    /\ pc[c] \in {"rv_chk", "rv_rm_s", "rv_rm_t", "rv_send"}
    /\ LET l == loc[c]
           i == loc[c].inv
       IN
       CASE pc[c] = "rv_chk" ->
              /\ lock[c] = NULL
              /\ LET n == NodeById(c, l.id)
                 IN  IF n = NULL \/ HasGame(inv[n]) \/ inv[n].sender # c
                     THEN Step(c, l, Return(c, -1))
                     ELSE Step(c, [l EXCEPT !.inv = n], "rv_rm_s")
              /\ UNCHANGED <<crashed, wire, regVars, cliVars, listVars, invVars, players,
                             req, tlog, svc>>
         [] pc[c] = "rv_rm_s" ->
              client_remove_invitation(c, c, i, "rv_rm_t", FALSE)
         [] pc[c] = "rv_rm_t" ->
              client_remove_invitation(c, inv[i].recipient, i, "rv_send", TRUE)
         [] pc[c] = "rv_send" ->
              /\ CanSend(l.target)
              /\ \/ /\ tlog' = Sent(c, Frame("REVOKED", l.target, l.peer_id, 0, <<>>, i))
                    /\ hist' = Succeed(i, "REVOKE")
                    /\ Step(c, l, Return(c, 0))
                 \/ /\ Hangup(l.target)
                    /\ tlog' = Failed(c, l.target, i)
                    /\ Step(c, l, Return(c, -1))
                    /\ UNCHANGED hist
              /\ UNCHANGED <<crashed, wire, regVars, cliVars, listVars, inv, ninv, players,
                             req, svc>>

\* client_decline_invitation
Decline(c) ==
    /\ ~crashed /\ loc[c].fr = 0
    /\ pc[c] \in {"dc_chk", "dc_rm_t", "dc_rm_s", "dc_lock", "dc_send"}
    /\ LET l == loc[c]
           i == loc[c].inv
       IN
       CASE pc[c] = "dc_chk" ->
              /\ lock[c] = NULL
              /\ LET n == NodeById(c, l.id)
                 IN  IF n = NULL \/ HasGame(inv[n]) \/ inv[n].recipient # c
                     THEN Step(c, l, Return(c, -1))
                     ELSE Step(c, [l EXCEPT !.inv = n], "dc_rm_t")
              /\ UNCHANGED <<crashed, wire, regVars, cliVars, listVars, invVars, players,
                             req, tlog, svc>>
         [] pc[c] = "dc_rm_t" ->
              client_remove_invitation(c, c, i, "dc_rm_s", FALSE)
         [] pc[c] = "dc_rm_s" ->
              client_remove_invitation(c, inv[i].sender, i, "dc_lock", TRUE)
         [] pc[c] = "dc_lock" ->
              /\ lock[c] = NULL
              /\ lock' = [lock EXCEPT ![c] = c]
              /\ Step(c, l, "dc_send")
              /\ UNCHANGED <<crashed, wire, regVars, logged_in, player, cref, listVars,
                             invVars, players, req, tlog, svc>>
         [] pc[c] = "dc_send" ->
              /\ CanSend(l.target)
              /\ lock' = [lock EXCEPT ![c] = NULL]
              /\ \/ /\ tlog' = Sent(c, Frame("DECLINED", l.target, l.peer_id, 0, <<>>, i))
                    /\ hist' = Succeed(i, "DECLINE")
                    /\ Step(c, l, Return(c, 0))
                 \/ /\ Hangup(l.target)
                    /\ tlog' = Failed(c, l.target, i)
                    /\ Step(c, l, Return(c, -1))
                    /\ UNCHANGED hist
              /\ UNCHANGED <<crashed, wire, regVars, logged_in, player, cref, listVars, inv,
                             ninv, players, req, svc>>

\* a client_accept_invitation that hands the board to its caller whoever
\* plays first
strp_always(v) == game_unparse_state(Game(v))

\* client_accept_invitation: what *strp holds when it returns 0, the empty
\* string standing for the NULL the caller put there
strp(v) ==
    IF v.source_role = FIRST_PLAYER_ROLE THEN <<>> ELSE game_unparse_state(Game(v))

\* client_accept_invitation, and the ACK of case JEUX_ACCEPT_PKT
Accept(c) ==
    /\ ~crashed /\ loc[c].fr = 0
    /\ pc[c] \in {"ac_lock", "ac_scan", "ac_send"}
    /\ LET l == loc[c]
           i == loc[c].inv
       IN
       CASE pc[c] = "ac_lock" ->
              /\ lock[c] = NULL
              /\ LET n == NodeById(c, l.id)
                 IN  IF n = NULL
                     THEN Step(c, l, Return(c, -1)) /\ UNCHANGED <<lock, inv>>
                     ELSE IF inv[n].recipient # c \/ HasGame(inv[n])
                             \/ ~inv_accept_ok(inv[n])
                     THEN Step(c, l, Return(c, -1)) /\ UNCHANGED <<lock, inv>>
                     ELSE /\ lock' = [lock EXCEPT ![c] = c]
                          /\ inv' = [inv EXCEPT ![n] = inv_accept(@)]
                          /\ Step(c, [l EXCEPT !.inv = n, !.target = inv[n].sender],
                                  "ac_scan")
              /\ UNCHANGED <<tlog, hist>>
         [] pc[c] = "ac_scan" ->
              /\ IF InList(l.target, i)
                 THEN Step(c, l, "ac_send") /\ UNCHANGED lock
                 ELSE /\ lock' = [lock EXCEPT ![c] = NULL]
                      /\ Step(c, l, Return(c, -1))
              /\ UNCHANGED <<inv, tlog, hist>>
         [] pc[c] = "ac_send" ->
              /\ CanSend(l.target)
              /\ lock' = [lock EXCEPT ![c] = NULL]
              /\ \/ /\ \E v \in NodeIdRead(l.target, i) :
                          tlog' = Sent(c, Frame("ACCEPTED", l.target, v, 0,
                                      IF inv[i].source_role = FIRST_PLAYER_ROLE
                                      THEN game_unparse_state(Game(inv[i])) ELSE <<>>, i))
                    /\ hist' = Succeed(i, "ACCEPT")
                    /\ Step(c, [l EXCEPT !.ack_id = l.id, !.ack_data = strp(inv[i])],
                            Return(c, 0))
                 \/ /\ Hangup(l.target)
                    /\ tlog' = Failed(c, l.target, i)
                    /\ Step(c, [l EXCEPT !.ack_data = strp(inv[i])], Return(c, -1))
                    /\ UNCHANGED hist
              /\ UNCHANGED inv
    /\ UNCHANGED <<crashed, wire, regVars, logged_in, player, cref, listVars, ninv,
                   players, req, svc>>

\* client_make_move: the result posted for a game that a move has ended; the
\* 0.5 of a draw is stored in an int
MoveResult(winner) ==
    IF winner = NULL_ROLE THEN 0 ELSE IF winner = FIRST_PLAYER_ROLE THEN 1 ELSE 2

Opponent(c, v) == IF c = v.sender THEN v.recipient ELSE v.sender
RoleOf(c, v) == IF c = v.sender THEN v.source_role ELSE v.target_role

\* client_resign_game
Resign(c) ==
    /\ ~crashed /\ loc[c].fr = 0
    /\ pc[c] \in {"rs_lock", "rs_close", "rs_scan", "rs_send1", "rs_send2", "rs_send3",
                  "rs_rm_s", "rs_rm_t", "rs_post"}
    /\ LET l == loc[c]
           i == loc[c].inv
           L == <<crashed, wire, regVars, logged_in, player, cref, listVars, ninv, req, svc>>
       IN
       CASE pc[c] = "rs_lock" ->
              /\ lock[c] = NULL
              /\ LET n == NodeById(c, l.id)
                 IN  IF n = NULL
                     THEN Step(c, l, Return(c, -1)) /\ UNCHANGED <<lock, inv>>
                     ELSE IF ~HasGame(inv[n])
                             \/ (inv[n].sender # c /\ inv[n].recipient # c)
                             \/ ~inv_close_ok(inv[n], RoleOf(c, inv[n]))
                     THEN Step(c, l, Return(c, -1)) /\ UNCHANGED <<lock, inv>>
                     ELSE /\ lock' = [lock EXCEPT ![c] = c]
                          /\ inv' = [inv EXCEPT ![n].state = "CLOSED"]
                          /\ Step(c, [l EXCEPT !.inv = n,
                                         !.target = Opponent(c, inv[n]),
                                         !.resign = inv[n].state = "ACCEPTED"
                                                    /\ game_resign_ok(Game(inv[n]))],
                                  "rs_close")
              /\ UNCHANGED <<tlog, hist, players>> /\ UNCHANGED L
         [] pc[c] = "rs_close" ->
              /\ inv' = IF l.resign
                        THEN [inv EXCEPT ![i].game =
                                 <<game_resign_write(Game(inv[i]), RoleOf(c, inv[i]))>>]
                        ELSE inv
              /\ Step(c, l, "rs_scan")
              /\ UNCHANGED <<lock, tlog, hist, players>> /\ UNCHANGED L
         [] pc[c] = "rs_scan" ->
              /\ lock' = [lock EXCEPT ![c] = NULL]
              /\ Step(c, l, IF InList(l.target, i) THEN "rs_send1" ELSE Return(c, -1))
              /\ UNCHANGED <<inv, tlog, hist, players>> /\ UNCHANGED L
         [] pc[c] = "rs_send1" ->
              /\ CanSend(l.target)
              /\ \/ \E v \in NodeIdRead(l.target, i) :
                      /\ tlog' = Sent(c, Frame("RESIGNED", l.target, v, 0, <<>>, i))
                      /\ Step(c, [l EXCEPT !.peer_id = v], "rs_send2")
                 \/ /\ Hangup(l.target)
                    /\ tlog' = Failed(c, l.target, i)
                    /\ Step(c, l, Return(c, -1))
              /\ UNCHANGED <<lock, inv, hist, players>> /\ UNCHANGED L
         [] pc[c] = "rs_send2" ->
              /\ CanSend(l.target)
              /\ \/ /\ tlog' = Sent(c, Frame("ENDED", l.target, l.peer_id,
                                               game_get_winner(Game(inv[i])), <<>>, i))
                    /\ Step(c, [l EXCEPT !.winner = game_get_winner(Game(inv[i]))],
                            "rs_send3")
                 \/ /\ Hangup(l.target)
                    /\ tlog' = Failed(c, l.target, i)
                    /\ Step(c, l, Return(c, -1))
              /\ UNCHANGED <<lock, inv, hist, players>> /\ UNCHANGED L
         [] pc[c] = "rs_send3" ->
              /\ CanSend(c)
              /\ \/ /\ tlog' = Sent(c, Frame("ENDED", c, l.id, l.winner, <<>>, i))
                    /\ Step(c, l, "rs_rm_s")
                 \/ /\ Hangup(c)
                    /\ tlog' = Failed(c, c, i)
                    /\ \E p \in {"rs_rm_s", Return(c, -1)} : Step(c, l, p)
              /\ UNCHANGED <<lock, inv, hist, players>> /\ UNCHANGED L
         [] pc[c] = "rs_rm_s" ->
              client_remove_invitation(c, inv[i].sender, i, "rs_rm_t", FALSE)
         [] pc[c] = "rs_rm_t" ->
              client_remove_invitation(c, inv[i].recipient, i, "rs_post", FALSE)
         [] pc[c] = "rs_post" ->
              /\ lock[c] = NULL
              /\ players' = player_post_result(players,
                                client_get_player(inv[i].sender),
                                client_get_player(inv[i].recipient),
                                IF c = inv[i].sender THEN 2 ELSE 1)
              /\ hist' = Succeed(i, "RESIGN")
              /\ Step(c, l, Return(c, 0))
              /\ UNCHANGED <<lock, inv, tlog>> /\ UNCHANGED L

\* client_make_move
Move(c) ==
    /\ ~crashed /\ loc[c].fr = 0
    /\ pc[c] \in {"mv_lock", "mv_scan", "mv_send", "mv_end1", "mv_end2",
                  "mv_rm_s", "mv_rm_t", "mv_post"}
    /\ LET l == loc[c]
           i == loc[c].inv
           L == <<crashed, wire, regVars, logged_in, player, cref, listVars, ninv, req, svc>>
       IN
       CASE pc[c] = "mv_lock" ->
              /\ lock[c] = NULL
              /\ LET n == NodeById(c, l.id)
                 IN  IF n = NULL
                     THEN Step(c, l, Return(c, -1)) /\ UNCHANGED <<lock, inv>>
                     ELSE IF ~HasGame(inv[n])
                     THEN Step(c, l, Return(c, -1)) /\ UNCHANGED <<lock, inv>>
                     ELSE LET g == Game(inv[n])
                              m == game_parse_move(g, RoleOf(c, inv[n]), req[c].payload)
                          IN  IF m = NoMove \/ ~game_move_legal(g, m)
                              THEN Step(c, l, Return(c, -1)) /\ UNCHANGED <<lock, inv>>
                              ELSE /\ lock' = [lock EXCEPT ![c] = c]
                                   /\ inv' = [inv EXCEPT ![n].game =
                                                 <<game_apply_move(g, m)>>]
                                   /\ Step(c, [l EXCEPT !.inv = n,
                                                  !.target = Opponent(c, inv[n])],
                                           "mv_scan")
              /\ UNCHANGED <<tlog, hist, players>> /\ UNCHANGED L
         [] pc[c] = "mv_scan" ->
              /\ IF InList(l.target, i)
                 THEN Step(c, l, "mv_send") /\ UNCHANGED lock
                 ELSE /\ lock' = [lock EXCEPT ![c] = NULL]
                      /\ Step(c, l, Return(c, -1))
              /\ UNCHANGED <<inv, tlog, hist, players>> /\ UNCHANGED L
         [] pc[c] = "mv_send" ->
              /\ CanSend(l.target)
              /\ \/ \E v \in NodeIdRead(l.target, i) :
                      /\ tlog' = Sent(c, Frame("MOVED", l.target, v, 0,
                                               game_unparse_state(Game(inv[i])), i))
                      /\ IF game_is_over(Game(inv[i])) = 0
                         THEN /\ lock' = [lock EXCEPT ![c] = NULL]
                              /\ hist' = Succeed(i, "MOVE")
                              /\ Step(c, l, Return(c, 0))
                         ELSE /\ Step(c, [l EXCEPT !.peer_id = v,
                                             !.winner = game_get_winner(Game(inv[i]))],
                                      "mv_end1")
                              /\ UNCHANGED <<lock, hist>>
                 \/ /\ Hangup(l.target)
                    /\ tlog' = Failed(c, l.target, i)
                    /\ lock' = [lock EXCEPT ![c] = NULL]
                    /\ Step(c, l, Return(c, -1))
                    /\ UNCHANGED hist
              /\ UNCHANGED <<inv, players>> /\ UNCHANGED L
         [] pc[c] = "mv_end1" ->
              /\ CanSend(l.target)
              /\ lock' = [lock EXCEPT ![c] = NULL]
              /\ \/ /\ tlog' = Sent(c, Frame("ENDED", l.target, l.peer_id, l.winner,
                                               <<>>, i))
                    /\ Step(c, l, "mv_end2")
                 \/ /\ Hangup(l.target)
                    /\ tlog' = Failed(c, l.target, i)
                    /\ Step(c, l, Return(c, -1))
              /\ UNCHANGED <<inv, hist, players>> /\ UNCHANGED L
         [] pc[c] = "mv_end2" ->
              /\ CanSend(c)
              /\ tlog' = Sent(c, Frame("ENDED", c, l.id, l.winner, <<>>, i))
              /\ Step(c, l, "mv_rm_s")
              /\ UNCHANGED <<lock, inv, hist, players>> /\ UNCHANGED L
         [] pc[c] = "mv_rm_s" ->
              client_remove_invitation(c, inv[i].sender, i, "mv_rm_t", FALSE)
         [] pc[c] = "mv_rm_t" ->
              client_remove_invitation(c, inv[i].recipient, i, "mv_post", FALSE)
         [] pc[c] = "mv_post" ->
              /\ lock[c] = NULL
              /\ players' = player_post_result(players,
                                client_get_player(c),
                                client_get_player(l.target),
                                MoveResult(l.winner))
              /\ hist' = Succeed(i, "MOVE_END")
              /\ Step(c, l, Return(c, 0))
              /\ UNCHANGED <<lock, inv, tlog>> /\ UNCHANGED L

\* proto_recv_packet fails at the end of the connection: the loop ends
Eof(c) ==
    /\ ~crashed /\ pc[c] = "read"
    /\ pc' = [pc EXCEPT ![c] = "lo_chk"]
    /\ tlog' = [tlog EXCEPT ![c] = <<>>]
    /\ UNCHANGED <<crashed, wire, regVars, cliVars, listVars, invVars, players, loc, req, svc>>

\* client_logout.  loc.node is the node the loop is at, named by its
\* invitation, and loc.next the node it goes to afterwards.
Logout(c) ==
    /\ ~crashed /\ loc[c].fr = 0
    /\ pc[c] \in {"lo_chk", "lo_loop", "lo_next"}
    /\ LET l == loc[c]
       IN
       CASE pc[c] = "lo_chk" ->
              /\ lock[c] = NULL
              /\ IF ~logged_in[c]
                 THEN Step(c, l, "unreg") /\ UNCHANGED players
                 ELSE /\ players' = player_unref(players, player[c])
                      /\ Step(c, [l EXCEPT !.cascade = TRUE,
                                     !.node = IF list[c] = <<>> THEN NULL
                                              ELSE Head(list[c])], "lo_loop")
         [] pc[c] = "lo_loop" ->
              /\ IF l.node = NULL
                 THEN Step(c, [l EXCEPT !.cascade = FALSE], "unreg")
                 ELSE LET i == l.node
                          nx == IF InList(c, i) THEN NextOf(c, i) ELSE tnext[c][i]
                          l2 == [l EXCEPT !.next = nx, !.id = nid[c][i]]
                      IN  IF HasGame(inv[i]) THEN Step(c, l2, "rs_lock")
                          ELSE IF inv[i].sender = c THEN Step(c, l2, "rv_chk")
                          ELSE Step(c, l2, "dc_chk")
              /\ UNCHANGED players
         [] pc[c] = "lo_next" ->
              /\ Step(c, [l EXCEPT !.node = l.next], "lo_loop")
              /\ UNCHANGED players
    /\ UNCHANGED <<crashed, wire, regVars, cliVars, listVars, invVars, req, tlog, svc>>

\* creg_unregister: V(&cr->semaphore) when the last client has gone and
\* P_flag is set
V_if_empty == IF Len(creg) = 0 /\ P_flag = 1 THEN semaphore + 1 ELSE semaphore

\* creg_unregister, and the end of the thread
Unregister(c) ==
    /\ ~crashed
    /\ pc[c] \in {"unreg", "unreg2"}
    /\ CASE pc[c] = "unreg" ->
              /\ creg_mutex = NULL
              /\ creg_mutex' = c
              /\ IF c \in Range(creg)
                 THEN creg' = Remove(creg, c) /\ pc' = [pc EXCEPT ![c] = "unreg2"]
                 ELSE UNCHANGED creg /\ pc' = [pc EXCEPT ![c] = "exit"]
              /\ UNCHANGED <<cref, players, semaphore>>
         [] pc[c] = "unreg2" ->
              /\ lock[c] = NULL
              /\ cref' = [cref EXCEPT ![c] = @ - 1]
              /\ players' = client_unref_players(c)
              /\ semaphore' = V_if_empty
              /\ creg_mutex' = NULL
              /\ pc' = [pc EXCEPT ![c] = "exit"]
              /\ UNCHANGED creg
    /\ UNCHANGED <<crashed, wire, P_flag, sock, mpc, mloc, logged_in, player, lock, listVars,
                   invVars, loc, req, tlog, svc>>

\* A thread about to read an INVITATION that has been freed
ClientFreed(c) == cref[c] = 0
DanglingAt(t) ==
    \/ /\ pc[t] \in {"rv_rm_t", "dc_rm_s", "rs_send2"}
       /\ InvFreed(loc[t].inv)
    \/ /\ pc[t] \in {"rv_send", "dc_send", "rs_send1", "rs_send2"}
       /\ ClientFreed(loc[t].target)
    \/ /\ pc[t] = "lo_loop" /\ loc[t].node # NULL
       /\ ~InList(t, loc[t].node)
    \/ /\ pc[t] \in {"lo_chk", "unreg"}
       /\ ClientFreed(t)

UseAfterFree(t) == ~crashed /\ loc[t].fr = 0 /\ DanglingAt(t) /\ Crash

\* ---------------------------------------------------------- the shutdown
MStep(m, l, p) ==
    /\ mloc' = [mloc EXCEPT ![m] = l]
    /\ mpc' = [mpc EXCEPT ![m] = p]

\* the client of the node after the node of x in the registry's list
RegNext(x) ==
    LET k == IndexOf(creg, x) IN IF k < Len(creg) THEN creg[k + 1] ELSE NULL

\* terminate of main.c, with creg_shutdown_all.  The loop walks the list
\* without the registry's mutex: a node that a creg_unregister has freed in
\* the meantime is read as what the memory holds, or the process dies.  The
\* client_logout of a client without invitations is one step; mloc.out keeps
\* the clients this thread has logged out.
Terminate(m) ==
    /\ ~crashed
    /\ mpc[m] \in {"idle", "sd_loop", "sd_logout", "sd_unreg", "sd_unreg2", "waited"}
    /\ LET l == mloc[m]
           x == mloc[m].temp
           R == <<crashed, wire, logged_in, player, lock, listVars, invVars, thrVars>>
       IN
       CASE mpc[m] = "idle" ->
              /\ MStep(m, [l EXCEPT !.current = IF creg = <<>> THEN NULL ELSE creg[1],
                                    !.term = TRUE], "sd_loop")
              /\ UNCHANGED <<creg, creg_mutex, P_flag, semaphore, sock, cref, players>>
              /\ UNCHANGED R
         [] mpc[m] = "sd_loop" ->
              IF l.current = NULL
              THEN /\ MStep(m, l, "wf_flag")
                   /\ UNCHANGED <<creg, creg_mutex, P_flag, semaphore, sock, cref,
                                  players>>
                   /\ UNCHANGED R
              ELSE \/ /\ l.current \notin Range(creg)
                      /\ Crash
                   \/ /\ \E nx \in IF l.current \in Range(creg)
                                   THEN {RegNext(l.current)}
                                   ELSE Range(creg) \cup {NULL} :
                            MStep(m, [l EXCEPT !.temp = l.current, !.current = nx],
                                  "sd_logout")
                      /\ sock' = [sock EXCEPT ![l.current] = "shut"]
                      /\ UNCHANGED <<creg, creg_mutex, P_flag, semaphore, cref, players>>
                      /\ UNCHANGED R
         [] mpc[m] = "sd_logout" ->
              \/ /\ ClientFreed(x)
                 /\ Crash
              \/ /\ lock[x] = NULL
                 /\ IF ~logged_in[x]
                    THEN MStep(m, l, "sd_unreg") /\ UNCHANGED players
                    ELSE /\ list[x] = <<>>
                         /\ players' = player_unref(players, player[x])
                         /\ MStep(m, [l EXCEPT !.out = @ \cup {x}], "sd_unreg")
                 /\ UNCHANGED <<creg, creg_mutex, P_flag, semaphore, sock, cref>>
                 /\ UNCHANGED R
         [] mpc[m] = "sd_unreg" ->
              \/ /\ ClientFreed(x)
                 /\ Crash
              \/ /\ creg_mutex = NULL
                 /\ creg_mutex' = Tid(m)
                 /\ IF x \in Range(creg)
                    THEN creg' = Remove(creg, x) /\ MStep(m, l, "sd_unreg2")
                    ELSE UNCHANGED creg /\ MStep(m, l, "sd_loop")
                 /\ UNCHANGED <<P_flag, semaphore, sock, cref, players>>
                 /\ UNCHANGED R
         [] mpc[m] = "sd_unreg2" ->
              /\ lock[x] = NULL
              /\ cref' = [cref EXCEPT ![x] = @ - 1]
              /\ players' = client_unref_players(x)
              /\ semaphore' = V_if_empty
              /\ creg_mutex' = NULL
              /\ MStep(m, l, "sd_loop")
              /\ UNCHANGED <<creg, P_flag, sock>>
              /\ UNCHANGED R
         [] mpc[m] = "waited" ->
              /\ MStep(m, l, "exited")
              /\ UNCHANGED <<creg, creg_mutex, P_flag, semaphore, sock, cref, players>>
              /\ UNCHANGED R

\* creg_wait_for_empty: P_flag is set and client_count is read without the
\* mutex, then the thread waits in P
Wait(m) ==
    /\ ~crashed
    /\ mpc[m] \in {"wf_flag", "wf_chk", "wf_P"}
    /\ CASE mpc[m] = "wf_flag" ->
              /\ P_flag' = 1
              /\ mpc' = [mpc EXCEPT ![m] = "wf_chk"]
              /\ UNCHANGED semaphore
         [] mpc[m] = "wf_chk" ->
              /\ semaphore' = IF Len(creg) = 0 THEN semaphore + 1 ELSE semaphore
              /\ mpc' = [mpc EXCEPT ![m] = "wf_P"]
              /\ UNCHANGED P_flag
         [] mpc[m] = "wf_P" ->
              /\ semaphore > 0
              /\ semaphore' = semaphore - 1
              /\ mpc' = [mpc EXCEPT ![m] = IF mloc[m].term THEN "waited" ELSE "idle"]
              /\ UNCHANGED P_flag
    /\ UNCHANGED <<crashed, wire, creg, creg_mutex, sock, mloc, cliVars, listVars, invVars,
                   players, thrVars>>

\* a thread calls creg_wait_for_empty by itself
CallWait(m) ==
    /\ ~crashed /\ mpc[m] = "idle"
    /\ mpc' = [mpc EXCEPT ![m] = "wf_flag"]
    /\ UNCHANGED <<crashed, wire, creg, creg_mutex, P_flag, semaphore, sock, mloc, cliVars,
                   listVars, invVars, players, thrVars>>

\* client_send_packet in its steps, called by a thread between two requests
\* for a frame to a registered client: pthread_mutex_lock, the rio_writen of
\* the header, the rio_writen of the payload when the size is not zero,
\* pthread_mutex_unlock.  The handlers above take these steps at once.
Chunk(t, part, size) == [by |-> t, part |-> part, size |-> size]
SendPacket(t) ==
    /\ ~crashed /\ loc[t].fr = 0
    /\ pc[t] \in {"read", "sp_lock", "sp_hdr", "sp_data", "sp_unlock"}
    /\ LET l == loc[t]
           to == l.target
       IN
       CASE pc[t] = "read" ->
              /\ \E d \in Range(creg) \cap Clients :
                    Step(t, [l EXCEPT !.target = d], "sp_lock")
              /\ UNCHANGED <<wire, lock>>
         [] pc[t] = "sp_lock" ->
              /\ CanSend(to)
              /\ lock' = [lock EXCEPT ![to] = t]
              /\ Step(t, l, "sp_hdr")
              /\ UNCHANGED wire
         [] pc[t] = "sp_hdr" ->
              /\ Len(wire[to]) < MaxWire
              /\ \E size \in {0, 1} :
                    /\ wire' = [wire EXCEPT ![to] = Append(@, Chunk(t, "hdr", size))]
                    /\ Step(t, l, IF size > 0 THEN "sp_data" ELSE "sp_unlock")
              /\ UNCHANGED lock
         [] pc[t] = "sp_data" ->
              /\ Len(wire[to]) < MaxWire
              /\ wire' = [wire EXCEPT ![to] = Append(@, Chunk(t, "data", 1))]
              /\ Step(t, l, "sp_unlock")
              /\ UNCHANGED lock
         [] pc[t] = "sp_unlock" ->
              /\ lock' = [lock EXCEPT ![to] = NULL]
              /\ Step(t, [l EXCEPT !.target = NULL], "read")
              /\ UNCHANGED wire
    /\ UNCHANGED <<crashed, regVars, logged_in, player, cref, listVars, invVars,
                   players, req, tlog, svc>>

LoginMenu == {[type |-> "LOGIN", id |-> 0, role |-> 0, payload |-> n] : n \in Names}

NextLogin == \E c \in Clients : Register(c) \/ Recv(c, LoginMenu) \/ Login(c) \/ Reply(c)

SpecLogin == Init /\ [][NextLogin]_vars

\* LOGIN packets with any payload, the payload of size 0 among them:
\* proto_recv_packet leaves the payload NULL and the switch copies size bytes
EmptyName == Name(0)
LoginMenuAny == LoginMenu \cup {[type |-> "LOGIN", id |-> 0, role |-> 0, payload |-> EmptyName]}

NextLoginAny ==
    \E c \in Clients : Register(c) \/ Recv(c, LoginMenuAny) \/ Login(c) \/ Reply(c)

SpecLoginAny == Init /\ [][NextLoginAny]_vars

\* Sessions that send every kind of request before they have logged in, and
\* LOGIN again after they have
GateMenu(c) ==
    LoginMenu \cup
    IF svc[c] THEN {}
    ELSE {[type |-> ty, id |-> 0, role |-> 1, payload |-> Name(1)] :
             ty \in {"USERS", "INVITE", "REVOKE", "ACCEPT", "DECLINE", "MOVE", "RESIGN"}}

NextGate == \E c \in Clients : Register(c) \/ Recv(c, GateMenu(c)) \/ Login(c) \/ Reply(c)

SpecGate == Init /\ [][NextGate]_vars

\* Sessions that also send well-framed packets of types no case of the
\* switch names: the unused type 0, the server's own types and a type beyond
\* the last one
OtherTypes == {"NO_PKT", "ACK", "NACK", "INVITED", "ENDED", "TYPE_14"}
OtherMenu ==
    LoginMenu \cup {[type |-> ty, id |-> 0, role |-> 0, payload |-> pl] :
                       ty \in OtherTypes, pl \in {<<>>, Name(1)}}

NextOther == \E c \in Clients : Register(c) \/ Recv(c, OtherMenu) \/ Login(c) \/ Reply(c)

SpecOther == Init /\ [][NextOther]_vars


\* ---------------------------------------------------------- the lobby
\* Both sessions are registered and logged in, each under a name of its own,
\* and send INVITE, REVOKE, DECLINE and ACCEPT frames.
Req(type, id, role, payload) ==
    [type |-> type, id |-> id, role |-> role, payload |-> payload]

LoggedIn(k) == [player_create(Name(k)) EXCEPT !.ref_count = 3]

InitLobby ==
    /\ crashed = FALSE
    /\ wire = [c \in Clients |-> <<>>]
    /\ creg = [k \in 1..NClients |-> NClients + 1 - k]
    /\ creg_mutex = NULL
    /\ NoShutdown
    /\ logged_in = [c \in Clients |-> TRUE]
    /\ player = [c \in Clients |-> c]
    /\ lock = [c \in Clients |-> NULL]
    /\ cref = [c \in Clients |-> 1]
    /\ list = [c \in Clients |-> <<>>]
    /\ nid = [c \in Clients |-> [i \in InvIds |-> -1]]
    /\ tnext = [c \in Clients |-> [i \in InvIds |-> NULL]]
    /\ inv = [i \in InvIds |-> NoInv]
    /\ ninv = 0
    /\ players = [k \in 1..NClients |-> LoggedIn(k)]
    /\ pc = [c \in Clients |-> "read"]
    /\ loc = [c \in Clients |-> Loc0]
    /\ req = [c \in Clients |-> NoReq]
    /\ tlog = [c \in Clients |-> <<>>]
    /\ svc = [c \in Clients |-> TRUE]
    /\ hist = [i \in InvIds |-> {}]

LobbyMenu ==
    {Req("INVITE", 0, 1 + (k % 2), Name(k)) : k \in 1..NClients}
    \cup {Req(ty, id, 0, <<>>) : ty \in {"REVOKE", "DECLINE", "ACCEPT"},
                                  id \in 0..(MaxInv - 1)}

NextLobby ==
    \E c \in Clients :
        \/ Recv(c, LobbyMenu)
        \/ Invite(c)
        \/ Revoke(c)
        \/ Decline(c)
        \/ Accept(c)
        \/ Reply(c)
        \/ FreeInv(c)
        \/ UseAfterFree(c)

SpecLobby == InitLobby /\ [][NextLobby]_vars

\* The scheduler runs every thread that can take a step; a client need not
\* send another frame.
Work(c) ==
    Invite(c) \/ Revoke(c) \/ Decline(c) \/ Accept(c) \/ Reply(c) \/ FreeInv(c)

\* Two sessions that only invite
InviteMenu == {Req("INVITE", 0, 1 + (k % 2), Name(k)) : k \in 1..NClients}
NextInvite == \E c \in Clients : Recv(c, InviteMenu) \/ Invite(c) \/ Reply(c)
SpecInviteFair ==
    /\ InitLobby /\ [][NextInvite]_vars
    /\ \A c \in Clients : WF_vars(Invite(c) \/ Reply(c))

\* Session 1 is logged in, the others are registered only: INVITE frames that
\* name the requester, a user nobody is logged in as, and a user who logs in,
\* with the role byte of the header a role or not
HalfMenu ==
    LoginMenu \cup {Req("INVITE", 0, r, n) : r \in 0..3, n \in Names}

InitHalf ==
    /\ crashed = FALSE
    /\ wire = [c \in Clients |-> <<>>]
    /\ creg = [k \in 1..NClients |-> NClients + 1 - k]
    /\ creg_mutex = NULL
    /\ NoShutdown
    /\ logged_in = [c \in Clients |-> c = 1]
    /\ player = [c \in Clients |-> IF c = 1 THEN 1 ELSE NULL]
    /\ lock = [c \in Clients |-> NULL]
    /\ cref = [c \in Clients |-> 1]
    /\ list = [c \in Clients |-> <<>>]
    /\ nid = [c \in Clients |-> [i \in InvIds |-> -1]]
    /\ tnext = [c \in Clients |-> [i \in InvIds |-> NULL]]
    /\ inv = [i \in InvIds |-> NoInv]
    /\ ninv = 0
    /\ players = <<LoggedIn(1)>>
    /\ pc = [c \in Clients |-> "read"]
    /\ loc = [c \in Clients |-> Loc0]
    /\ req = [c \in Clients |-> NoReq]
    /\ tlog = [c \in Clients |-> <<>>]
    /\ svc = [c \in Clients |-> c = 1]
    /\ hist = [i \in InvIds |-> {}]

NextHalf == \E c \in Clients : Recv(c, HalfMenu) \/ Login(c) \/ Invite(c) \/ Reply(c)

SpecHalf == InitHalf /\ [][NextHalf]_vars

\* The shutdown: of two connected sessions one has logged in; either
\* connection may end at any time while a SIGHUP makes a thread run terminate
NextShut ==
    \/ \E c \in Clients :
          \/ Eof(c)
          \/ Logout(c)
          \/ Unregister(c)
          \/ UseAfterFree(c)
    \/ \E m \in Mains : Terminate(m) \/ Wait(m)

SpecShut == InitHalf /\ [][NextShut]_vars

\* The client registry alone: connections register and unregister while
\* threads call creg_wait_for_empty, at the same time or one after another
NextReg ==
    \/ \E c \in Clients :
          \/ Register(c)
          \/ Eof(c)
          \/ Logout(c)
          \/ Unregister(c)
    \/ \E m \in Mains : CallWait(m) \/ Wait(m)

SpecReg == Init /\ [][NextReg]_vars

\* The threads of the registered sessions send frames to each other and to
\* themselves, client_send_packet taken step by step
NextWire == \E c \in Clients : Register(c) \/ SendPacket(c)

SpecWire == Init /\ [][NextWire]_vars

\* The registry near its capacity: n other connections are registered, whose
\* threads stay in their read and are not followed; their clients are named
\* by the numbers after those of the sessions
OtherClients(n) == [i \in 1..n |-> NClients + i]

InitFull ==
    /\ crashed = FALSE
    /\ wire = [c \in Clients |-> <<>>]
    /\ \E n \in (MAX_CLIENTS - 2 * NClients)..MAX_CLIENTS : creg = OtherClients(n)
    /\ creg_mutex = NULL
    /\ NoShutdown
    /\ logged_in = [c \in Clients |-> FALSE]
    /\ player = [c \in Clients |-> NULL]
    /\ lock = [c \in Clients |-> NULL]
    /\ cref = [c \in Clients |-> 0]
    /\ list = [c \in Clients |-> <<>>]
    /\ nid = [c \in Clients |-> [i \in InvIds |-> -1]]
    /\ tnext = [c \in Clients |-> [i \in InvIds |-> NULL]]
    /\ inv = [i \in InvIds |-> NoInv]
    /\ ninv = 0
    /\ players = <<>>
    /\ pc = [c \in Clients |-> "start"]
    /\ loc = [c \in Clients |-> Loc0]
    /\ req = [c \in Clients |-> NoReq]
    /\ tlog = [c \in Clients |-> <<>>]
    /\ svc = [c \in Clients |-> FALSE]
    /\ hist = [i \in InvIds |-> {}]

NextFull == \E c \in Clients : Register(c) \/ Eof(c) \/ Logout(c) \/ Unregister(c)

SpecFull == InitFull /\ [][NextFull]_vars

\* The same with the scheduling of the threads: a thread that can go on in
\* client_logout or creg_unregister does so in the end, and a thread in
\* creg_wait_for_empty for which the semaphore is posted again and again gets
\* it in the end (connecting, disconnecting and calling creg_wait_for_empty
\* stay free)
SpecRegFair ==
    /\ SpecReg
    /\ \A m \in Mains : SF_vars(Wait(m))
    /\ \A c \in Clients : WF_vars(Logout(c)) /\ WF_vars(Unregister(c))

\* The local ids: either nothing has been invited yet, or session 1 has
\* invited session 2 twice and revoked the first invitation, so that the one
\* left has id 1 in both lists and id 0 is free again.
InitGap ==
    /\ crashed = FALSE
    /\ wire = [c \in Clients |-> <<>>]
    /\ creg = [k \in 1..NClients |-> NClients + 1 - k]
    /\ creg_mutex = NULL
    /\ NoShutdown
    /\ logged_in = [c \in Clients |-> TRUE]
    /\ player = [c \in Clients |-> c]
    /\ lock = [c \in Clients |-> NULL]
    /\ cref = [c \in Clients |-> IF c \in {1, 2} THEN 2 ELSE 1]
    /\ list = [c \in Clients |-> IF c \in {1, 2} THEN <<1>> ELSE <<>>]
    /\ nid = [c \in Clients |-> [i \in InvIds |-> IF c \in {1, 2} /\ i = 1 THEN 1 ELSE -1]]
    /\ tnext = [c \in Clients |-> [i \in InvIds |-> NULL]]
    /\ inv = [i \in InvIds |->
                 IF i = 1
                 THEN [inv_create(1, 2, FIRST_PLAYER_ROLE, SECOND_PLAYER_ROLE)
                          EXCEPT !.ref_count = 2]
                 ELSE NoInv]
    /\ ninv = 1
    /\ players = [k \in 1..NClients |-> LoggedIn(k)]
    /\ pc = [c \in Clients |-> "read"]
    /\ loc = [c \in Clients |-> Loc0]
    /\ req = [c \in Clients |-> NoReq]
    /\ tlog = [c \in Clients |-> <<>>]
    /\ svc = [c \in Clients |-> TRUE]
    /\ hist = [i \in InvIds |-> IF i = 1 THEN {"INVITE"} ELSE {}]

InitIds == InitLobby \/ InitGap

IdsMenu ==
    {Req("INVITE", 0, 1 + (k % 2), Name(k)) : k \in 1..NClients}
    \cup {Req(ty, id, 0, <<>>) : ty \in {"REVOKE", "DECLINE"}, id \in 0..(MaxInv - 1)}

NextIds ==
    \E c \in Clients :
        \/ Recv(c, IdsMenu)
        \/ Invite(c)
        \/ Revoke(c)
        \/ Decline(c)
        \/ Reply(c)
        \/ FreeInv(c)
        \/ UseAfterFree(c)

SpecIds == InitIds /\ [][NextIds]_vars

\* ------------------------------------------------------------ the game
\* Session 1 has invited session 2, session 2 has accepted, and the two have
\* played up to a position from which a few moves end the game.
Board(xs, os) == [k \in 1..MAX_BOARD_NUM |-> IF k \in xs THEN 1 ELSE IF k \in os THEN 2 ELSE 0]
Position(xs, os) ==
    [board |-> Board(xs, os),
     turn_X |-> IF Cardinality(xs) = Cardinality(os) THEN 1 ELSE 0,
     num_turns |-> Cardinality(xs) + Cardinality(os),
     winner |-> NULL_ROLE, terminated |-> 0]
StartPositions ==
    {Position({1, 2}, {4, 5}), Position({1, 2, 6, 7}, {3, 4, 5, 9})}

Other(role) == IF role = FIRST_PLAYER_ROLE THEN SECOND_PLAYER_ROLE ELSE FIRST_PLAYER_ROLE

InitGame ==
    /\ crashed = FALSE
    /\ wire = [c \in Clients |-> <<>>]
    /\ creg = <<2, 1>>
    /\ creg_mutex = NULL
    /\ NoShutdown
    /\ logged_in = [c \in Clients |-> TRUE]
    /\ player = [c \in Clients |-> c]
    /\ lock = [c \in Clients |-> NULL]
    /\ cref = [c \in Clients |-> IF c \in {1, 2} THEN 2 ELSE 1]
    /\ list = [c \in Clients |-> IF c \in {1, 2} THEN <<1>> ELSE <<>>]
    /\ nid = [c \in Clients |-> [i \in InvIds |-> IF c \in {1, 2} /\ i = 1 THEN 0 ELSE -1]]
    /\ tnext = [c \in Clients |-> [i \in InvIds |-> NULL]]
    /\ \E r \in Roles, g \in StartPositions :
          inv = [i \in InvIds |->
                    IF i = 1
                    THEN [inv_create(1, 2, r, Other(r)) EXCEPT
                             !.ref_count = 2, !.state = "ACCEPTED", !.game = <<g>>]
                    ELSE NoInv]
    /\ ninv = 1
    /\ players = [k \in 1..NClients |-> LoggedIn(k)]
    /\ pc = [c \in Clients |-> "read"]
    /\ loc = [c \in Clients |-> Loc0]
    /\ req = [c \in Clients |-> NoReq]
    /\ tlog = [c \in Clients |-> <<>>]
    /\ svc = [c \in Clients |-> TRUE]
    /\ hist = [i \in InvIds |-> IF i = 1 THEN {"INVITE", "ACCEPT"} ELSE {}]

GameMenu ==
    {Req("MOVE", 0, 0, <<sq>>) : sq \in {"3", "6", "8"}} \cup {Req("RESIGN", 0, 0, <<>>)}

NextGame ==
    \E c \in Clients :
        \/ Recv(c, GameMenu)
        \/ Move(c)
        \/ Resign(c)
        \/ Reply(c)
        \/ FreeInv(c)
        \/ UseAfterFree(c)

SpecGame == InitGame /\ [][NextGame]_vars

\* ----------------------------------------------------------- the logout
\* Session 1 has invited session 2; either connection may end at any time
\* while the other session answers the invitation or resigns the game.
InitOpen ==
    /\ crashed = FALSE
    /\ wire = [c \in Clients |-> <<>>]
    /\ creg = <<2, 1>>
    /\ creg_mutex = NULL
    /\ NoShutdown
    /\ logged_in = [c \in Clients |-> TRUE]
    /\ player = [c \in Clients |-> c]
    /\ lock = [c \in Clients |-> NULL]
    /\ cref = [c \in Clients |-> IF c \in {1, 2} THEN 2 ELSE 1]
    /\ list = [c \in Clients |-> IF c \in {1, 2} THEN <<1>> ELSE <<>>]
    /\ nid = [c \in Clients |-> [i \in InvIds |-> IF c \in {1, 2} /\ i = 1 THEN 0 ELSE -1]]
    /\ tnext = [c \in Clients |-> [i \in InvIds |-> NULL]]
    /\ \E r \in Roles :
          inv = [i \in InvIds |->
                    IF i = 1
                    THEN [inv_create(1, 2, r, Other(r)) EXCEPT !.ref_count = 2]
                    ELSE NoInv]
    /\ ninv = 1
    /\ players = [k \in 1..NClients |-> LoggedIn(k)]
    /\ pc = [c \in Clients |-> "read"]
    /\ loc = [c \in Clients |-> Loc0]
    /\ req = [c \in Clients |-> NoReq]
    /\ tlog = [c \in Clients |-> <<>>]
    /\ svc = [c \in Clients |-> TRUE]
    /\ hist = [i \in InvIds |-> IF i = 1 THEN {"INVITE"} ELSE {}]

LogoutMenu ==
    {Req(ty, 0, 0, <<>>) : ty \in {"REVOKE", "DECLINE", "ACCEPT", "RESIGN"}}

NextLogout ==
    \E c \in Clients :
        \/ Recv(c, LogoutMenu)
        \/ Eof(c)
        \/ Logout(c)
        \/ Unregister(c)
        \/ Revoke(c)
        \/ Decline(c)
        \/ Accept(c)
        \/ Resign(c)
        \/ Reply(c)
        \/ FreeInv(c)
        \/ UseAfterFree(c)

SpecLogout == InitOpen /\ [][NextLogout]_vars

\* Two logged-in sessions with empty lists: session 1 sends INVITE frames
\* with the role byte of the header a role or not, while either connection
\* may end
LeaveMenu(c) ==
    IF c = 1
    THEN {Req("INVITE", 0, r, Name(k)) : r \in 0..2, k \in 1..NClients}
    ELSE {}

NextLeave ==
    \E c \in Clients :
        \/ Recv(c, LeaveMenu(c))
        \/ Invite(c)
        \/ Reply(c)
        \/ Eof(c)
        \/ Logout(c)
        \/ Revoke(c)
        \/ Decline(c)
        \/ Unregister(c)
        \/ FreeInv(c)
        \/ UseAfterFree(c)

SpecLeave == InitLobby /\ [][NextLeave]_vars

\* ------------------------------------------------- invitation.c alone
\* A caller creates an INVITATION from session 1 to session 2 and then calls
\* inv_accept, inv_close and game_apply_move on it in any order; req[1] keeps
\* the last call: its name, the value it returned in id, its role argument.
\* The moves of a game alone: well-formed and ill-formed MOVE frames, in and
\* out of turn, on free and on taken squares
MoveMenu ==
    {Req("MOVE", 0, 0, str) :
        str \in {<<"0">>, <<"1">>, <<"3">>, <<"6">>, <<"9">>, <<"1", "0">>, <<>>,
                 <<"3", "<", "-", "X">>, <<"8", "<", "-", "O">>, <<"8", "<", "-", "Z">>}}

NextMoves == \E c \in Clients : Recv(c, MoveMenu) \/ Move(c) \/ Reply(c) \/ FreeInv(c)

SpecMoves == InitGame /\ [][NextMoves]_vars

\* The acceptance and the start of the game: session 1 has invited session 2,
\* which accepts while either side already sends moves and resignations for
\* the handle it holds.
AcceptMenu ==
    {Req("ACCEPT", 0, 0, <<>>), Req("RESIGN", 0, 0, <<>>)}
    \cup {Req("MOVE", 0, 0, <<sq>>) : sq \in {"1", "5"}}

NextAccept ==
    \E c \in Clients :
        \/ Recv(c, AcceptMenu)
        \/ Accept(c)
        \/ Move(c)
        \/ Resign(c)
        \/ Reply(c)
        \/ FreeInv(c)
        \/ UseAfterFree(c)

SpecAccept == InitOpen /\ [][NextAccept]_vars

\* The notifications to a peer whose connection has ended: session 1 has
\* invited session 2, which may have accepted; session 1 goes on sending
\* requests while either connection may end at any time.
InitHangup == InitOpen \/ InitGame

HangupMenu(c) ==
    IF c = 1
    THEN {Req(ty, 0, 0, <<>>) : ty \in {"REVOKE", "DECLINE", "ACCEPT", "RESIGN"}}
         \cup {Req("MOVE", 0, 0, <<sq>>) : sq \in {"3", "6"}}
         \cup {Req("INVITE", 0, FIRST_PLAYER_ROLE, Name(2))}
    ELSE {}

NextHangup ==
    \E c \in Clients :
        \/ Recv(c, HangupMenu(c))
        \/ Eof(c)
        \/ Logout(c)
        \/ Unregister(c)
        \/ Invite(c)
        \/ Revoke(c)
        \/ Decline(c)
        \/ Accept(c)
        \/ Move(c)
        \/ Resign(c)
        \/ Reply(c)
        \/ FreeInv(c)
        \/ UseAfterFree(c)

SpecHangup == InitHangup /\ [][NextHangup]_vars

InitInv ==
    /\ crashed = FALSE
    /\ wire = [c \in Clients |-> <<>>]
    /\ creg = <<2, 1>>
    /\ creg_mutex = NULL
    /\ NoShutdown
    /\ logged_in = [c \in Clients |-> TRUE]
    /\ player = [c \in Clients |-> c]
    /\ lock = [c \in Clients |-> NULL]
    /\ cref = [c \in Clients |-> IF c \in {1, 2} THEN 2 ELSE 1]
    /\ list = [c \in Clients |-> <<>>]
    /\ nid = [c \in Clients |-> [i \in InvIds |-> -1]]
    /\ tnext = [c \in Clients |-> [i \in InvIds |-> NULL]]
    /\ \E r \in Roles :
          inv = [i \in InvIds |-> IF i = 1 THEN inv_create(1, 2, r, Other(r)) ELSE NoInv]
    /\ ninv = 1
    /\ players = [k \in 1..NClients |-> LoggedIn(k)]
    /\ pc = [c \in Clients |-> "read"]
    /\ loc = [c \in Clients |-> Loc0]
    /\ req = [c \in Clients |-> NoReq]
    /\ tlog = [c \in Clients |-> <<>>]
    /\ svc = [c \in Clients |-> TRUE]
    /\ hist = [i \in InvIds |-> {}]

Called(name, ret, role) == [req EXCEPT ![1] = Req(name, ret, role, <<>>)]

CallAccept ==
    /\ inv' = [inv EXCEPT ![1] = inv_accept(@)]
    /\ req' = Called("inv_accept", IF inv_accept_ok(inv[1]) THEN 0 ELSE -1, NULL_ROLE)
    /\ UNCHANGED <<crashed, wire, regVars, cliVars, listVars, ninv, hist, players, pc, loc,
                   tlog, svc>>

CallClose ==
    \E role \in {NULL_ROLE} \cup Roles :
        /\ inv' = [inv EXCEPT ![1] = inv_close(@, role)]
        /\ req' = Called("inv_close", IF inv_close_ok(inv[1], role) THEN 0 ELSE -1, role)
        /\ UNCHANGED <<crashed, wire, regVars, cliVars, listVars, ninv, hist, players, pc,
                       loc, tlog, svc>>

CallMove ==
    /\ HasGame(inv[1])
    /\ \E m \in [player : {1, 2}, square : 1..MAX_BOARD_NUM] :
          /\ game_move_legal(Game(inv[1]), m)
          /\ inv' = [inv EXCEPT ![1].game = <<game_apply_move(Game(inv[1]), m)>>]
          /\ req' = Called("game_apply_move", 0, m.player)
    /\ UNCHANGED <<crashed, wire, regVars, cliVars, listVars, ninv, hist, players, pc, loc,
                   tlog, svc>>

NextInv == CallAccept \/ CallClose \/ CallMove

SpecInv == InitInv /\ [][NextInv]_vars

\* ------------------------------------------------------------- the claims
\* C1: in every reachable state at most one registered session is logged in
\* under any given username, also when two sessions send LOGIN with the same
\* username concurrently.
C1_UniqueLogin ==
    \A a, b \in Range(creg) :
        (a # b /\ logged_in[a] /\ logged_in[b])
            => player_get_name(player[a]) # player_get_name(player[b])

\* The replies a thread has sent to its own client for the request at hand
Replies(c) ==
    {k \in 1..Len(tlog[c]) : tlog[c][k].type \in {"ACK", "NACK"} /\ tlog[c][k].to = c}

\* C2: every frame of a client request type that a service loop reads gets
\* exactly one ACK or NACK, sent before the loop reads the next frame.
C2_ReplySent ==
    \A c \in Clients :
        (req[c].type \in ClientTypes)
            ~> (pc[c] = "brk" /\ Cardinality(Replies(c)) = 1)

\* C2, the part that holds: a request the loop has finished has exactly one
\* reply in its log, and no request ever has two.
C2_OneReplyAtBreak ==
    \A c \in Clients :
        /\ Cardinality(Replies(c)) <= 1
        /\ (pc[c] = "brk" /\ req[c].type \in ClientTypes)
              => Cardinality(Replies(c)) = 1

Live(i) == inv[i].alloc = "live"
Handles(c, i) == Cardinality({k \in 1..Len(list[c]) : list[c][k] = i})
InBothLists(i) == Handles(inv[i].sender, i) = 1 /\ Handles(inv[i].recipient, i) = 1
\* a thread is inside an operation of client.c on the invitation
Busy(i) ==
    \E t \in Clients :
        /\ loc[t].inv = i
        /\ pc[t] \notin {"read", "ack", "nack", "brk", "lo_next", "unreg", "exit"}

C5_AtMostOneSucceeds ==
    \A i \in InvIds : Cardinality(hist[i] \cap {"REVOKE", "ACCEPT", "DECLINE"}) <= 1

\* C6: after a successful revoke by the source or decline by the target the
\* invitation is in state CLOSED and in neither list.
C6_ClosedAndUnlisted ==
    \A i \in InvIds :
        (hist[i] \cap {"REVOKE", "DECLINE"} # {})
            => /\ inv[i].state = "CLOSED"
               /\ \A c \in Clients : Handles(c, i) = 0

Notifications ==
    {"INVITED", "REVOKED", "DECLINED", "ACCEPTED", "MOVED", "RESIGNED", "ENDED"}

\* C8: every notification carries in its id field the local id that the
\* session it is sent to gave to the invitation.
C8_RecipientId ==
    \A t \in Clients : \A k \in 1..Len(tlog[t]) :
        tlog[t][k].type \in Notifications
            => tlog[t][k].id = nid[tlog[t][k].to][tlog[t][k].inv]

\* the notifications in a thread's log, as <<type, receiver>>, in the order sent
Notes(c) == SelectSeq(tlog[c], LAMBDA f : f.type \in Notifications)
Kinds(c) == [k \in 1..Len(Notes(c)) |-> <<Notes(c)[k].type, Notes(c)[k].to>>]
IsPrefix(a, b) == Len(a) <= Len(b) /\ \A k \in 1..Len(a) : a[k] = b[k]
Acked(c) == \E k \in 1..Len(tlog[c]) : tlog[c][k].type = "ACK"
AckLast(c) == Acked(c) => tlog[c][Len(tlog[c])].type = "ACK"
EndOrder(c, first) ==
    LET o == Opponent(c, inv[loc[c].inv])
    IN  IsPrefix(Kinds(c), <<<<first, o>>, <<"ENDED", o>>, <<"ENDED", c>>>>)
\* the role that has three in a line on the board, if any
BoardWinner(g) ==
    IF win(g.board, 1) THEN FIRST_PLAYER_ROLE
    ELSE IF win(g.board, 2) THEN SECOND_PLAYER_ROLE ELSE NULL_ROLE

\* The winner of the game whose end a mover announces: the side with three in
\* a line, nobody on a full board, else the mover, whose opponent resigned.
MoveWinner(c, v) ==
    IF BoardWinner(Game(v)) # NULL_ROLE THEN BoardWinner(Game(v))
    ELSE IF Game(v).num_turns >= MAX_BOARD_NUM THEN NULL_ROLE
    ELSE RoleOf(c, v)

C9_Order ==
    \A c \in Clients :
        /\ (req[c].type = "RESIGN" /\ Len(Notes(c)) > 0) =>
              /\ EndOrder(c, "RESIGNED")
              /\ Acked(c) => Len(Notes(c)) = 3
              /\ AckLast(c)
        /\ (req[c].type = "MOVE" /\ Len(Notes(c)) > 0) =>
              /\ EndOrder(c, "MOVED")
              /\ Acked(c) => Len(Notes(c)) \in {1, 3}
              /\ AckLast(c)

C9_Winner ==
    \A c \in Clients : \A k \in 1..Len(Notes(c)) :
        Notes(c)[k].type = "ENDED" =>
            Notes(c)[k].role =
                IF req[c].type = "RESIGN" THEN Other(RoleOf(c, inv[loc[c].inv]))
                ELSE MoveWinner(c, inv[loc[c].inv])

\* C9: a resignation sends RESIGNED to the opponent, ENDED to the opponent,
\* ENDED to the resigner; a terminating move sends MOVED to the opponent,
\* ENDED to the opponent, ENDED to the mover; every ENDED carries the
\* winner's role, on resignation the role opposite to the resigner's; all
\* of them are sent before the requester's ACK.
C9_EndNotifications == C9_Order /\ C9_Winner

\* the scores of the two players of an invitation after its one game, given
\* the winner's role: 2 stands for 1.0, 1 for 0.5
Scored(w, v) ==
    LET s == players[player[v.sender]]
        t == players[player[v.recipient]]
    IN  /\ s.games = 1 /\ t.games = 1
        /\ IF w = NULL_ROLE THEN s.score2 = 1 /\ t.score2 = 1
           ELSE IF w = v.source_role THEN s.score2 = 2 /\ t.score2 = 0
           ELSE s.score2 = 0 /\ t.score2 = 2

\* C10: when a game has ended, by a move or by a resignation, the rating
\* update gives the win to the player whose role is the winner role sent in
\* ENDED and the loss to the other; a draw gives both 0.5.
C10_WinnerScored ==
    \A c \in Clients :
        (pc[c] = "ack" /\ req[c].type \in {"MOVE", "RESIGN"}) =>
            \A k \in 1..Len(Notes(c)) :
                Notes(c)[k].type = "ENDED" =>
                    Scored(Notes(c)[k].role, inv[loc[c].inv])

Edges == {<<"OPEN", "ACCEPTED">>, <<"OPEN", "CLOSED">>, <<"ACCEPTED", "CLOSED">>}

\* C4: the state of an invitation changes only from OPEN to ACCEPTED, from
\* OPEN to CLOSED or from ACCEPTED to CLOSED; inv_accept succeeds only from
\* OPEN, inv_close only from OPEN or ACCEPTED; a second close fails and a
\* CLOSED invitation never changes state again.
C4_StateTransitions ==
    [][/\ inv'[1].state # inv[1].state => <<inv[1].state, inv'[1].state>> \in Edges
       /\ inv[1].state = "CLOSED" => inv'[1].state = "CLOSED"
       /\ (req'[1].type = "inv_accept" /\ req'[1].id = 0)
             => inv[1].state = "OPEN" /\ inv'[1].state = "ACCEPTED"
       /\ (req'[1].type = "inv_accept" /\ req'[1].id # 0)
             => inv[1].state # "OPEN" /\ inv'[1] = inv[1]
       /\ (req'[1].type = "inv_close" /\ req'[1].id = 0)
             => inv[1].state \in {"OPEN", "ACCEPTED"} /\ inv'[1].state = "CLOSED"
       /\ (req'[1].type = "inv_close" /\ inv[1].state = "CLOSED")
             => req'[1].id = -1 /\ inv'[1] = inv[1]]_vars

C4_Witness ==
    /\ inv[1].state = "CLOSED" /\ HasGame(inv[1])
    /\ req[1].type = "inv_close" /\ req[1].id = -1 /\ req[1].role # NULL_ROLE

\* C7: when the connection of a logged-in session has ended and its service
\* loop has run the logout cascade and unregistered the session, the
\* session's list is empty and the session is no longer registered.
C7_ListEmptyAfterLogout ==
    \A c \in Clients :
        (pc[c] = "exit" /\ ~crashed) => list[c] = <<>> /\ c \notin Range(creg)

NonLogin == ClientTypes \ {"LOGIN"}
LastIsNack(c) == Len(tlog'[c]) = 1 /\ tlog'[c][1].type = "NACK" /\ tlog'[c][1].to = c

\* C11: until a session has logged in, every request other than LOGIN is
\* answered with NACK and changes no session, invitation or registry state;
\* once the session is logged in, every further LOGIN is answered with NACK
\* and leaves its player unchanged.  (At "ack" the thread is answering the
\* LOGIN that logged the session in.)
C11_LoginGate ==
    [][\A c \in Clients :
          /\ (pc'[c] # pc[c] /\ ~svc[c] /\ req'[c].type \in NonLogin)
                => /\ pc[c] \in {"read", "nack"}
                   /\ pc'[c] = IF pc[c] = "read" THEN "nack" ELSE "brk"
                   /\ pc'[c] = "brk" => LastIsNack(c)
                   /\ UNCHANGED <<regVars, cliVars, listVars, invVars, players, svc>>
          /\ (pc'[c] # pc[c] /\ svc[c] /\ req'[c].type = "LOGIN" /\ pc[c] # "ack")
                => /\ pc[c] \in {"read", "nack"}
                   /\ pc'[c] = IF pc[c] = "read" THEN "nack" ELSE "brk"
                   /\ pc'[c] = "brk" => LastIsNack(c)
                   /\ player'[c] = player[c] /\ logged_in'[c] = logged_in[c]
                   /\ svc'[c]]_vars

C11_Witness ==
    \E c, d \in Clients :
        /\ ~svc[c] /\ req[c].type = "INVITE" /\ pc[c] = "brk"
        /\ svc[d] /\ req[d].type = "LOGIN" /\ pc[d] = "brk"
        /\ tlog[d][1].type = "NACK"

\* C12: REVOKE is ACKed only if the id names a handle of the requester, the
\* requester is the source and the invitation is OPEN; ACCEPT and DECLINE
\* only if the id names a handle of the requester, the requester is the
\* target and the invitation is OPEN (an ACCEPT leaves it ACCEPTED); every
\* other reply is NACK, sent without a notification to the peer.
C12_AckOnlyIfOpen ==
    \A c \in Clients :
        LET i == loc[c].inv
        IN  /\ (pc[c] = "ack" /\ req[c].type = "REVOKE") =>
                  /\ nid[c][i] = req[c].id /\ inv[i].sender = c
                  /\ inv[i].state = "OPEN" /\ ~HasGame(inv[i])
            /\ (pc[c] = "ack" /\ req[c].type = "DECLINE") =>
                  /\ nid[c][i] = req[c].id /\ inv[i].recipient = c
                  /\ inv[i].state = "OPEN" /\ ~HasGame(inv[i])
            /\ (pc[c] = "ack" /\ req[c].type = "ACCEPT") =>
                  /\ nid[c][i] = req[c].id /\ inv[i].recipient = c
                  /\ inv[i].state = "ACCEPTED" /\ InList(c, i)
            /\ (pc[c] = "nack" /\ req[c].type \in {"REVOKE", "DECLINE", "ACCEPT"}) =>
                  Notes(c) = <<>>

\* C13: MOVE and RESIGN are ACKed only when the id names a handle of the
\* requester whose invitation is ACCEPTED with a game in progress; on an
\* OPEN invitation, on an unknown id and after the game has ended the reply
\* is NACK.  (loc.resign says that the resignation found the game running.)
C13_AckOnlyInProgress ==
    \A c \in Clients :
        LET i == loc[c].inv
        IN  /\ (pc[c] = "ack" /\ req[c].type = "MOVE") =>
                  nid[c][i] = req[c].id /\ HasGame(inv[i])
            /\ (pc[c] = "ack" /\ req[c].type = "RESIGN") =>
                  nid[c][i] = req[c].id /\ HasGame(inv[i]) /\ loc[c].resign

\* the mark of a role on the board
MarkOf(role) == IF role = FIRST_PLAYER_ROLE THEN 1 ELSE 2
OnMove(g) == IF g.turn_X # 0 THEN FIRST_PLAYER_ROLE ELSE SECOND_PLAYER_ROLE

\* C14: a MOVE changes the board only if the game is not terminated, the
\* requester's role is the role on move, the mark placed is the requester's
\* own, and the square is in 1..9 and empty; a MOVE that is refused is
\* answered with NACK, leaves the board and the side to move unchanged and
\* sends no MOVED.
C14_LegalMoves ==
    [][\A i \in InvIds :
          /\ (HasGame(inv[i]) /\ HasGame(inv'[i])
              /\ (Game(inv'[i]).board # Game(inv[i]).board
                  \/ Game(inv'[i]).turn_X # Game(inv[i]).turn_X))
                => \E c \in Clients :
                      /\ pc[c] = "mv_lock" /\ pc'[c] = "mv_scan" /\ req[c].type = "MOVE"
                      /\ nid[c][i] = req[c].id /\ InList(c, i)
                      /\ Game(inv[i]).terminated = 0
                      /\ RoleOf(c, inv[i]) = OnMove(Game(inv[i]))
                      /\ OnMove(Game(inv'[i])) # OnMove(Game(inv[i]))
                      /\ \E sq \in 1..MAX_BOARD_NUM :
                            /\ req[c].payload[1] = Digits[sq]
                            /\ Game(inv[i]).board[sq] = 0
                            /\ Game(inv'[i]).board =
                                  [Game(inv[i]).board EXCEPT
                                      ![sq] = MarkOf(RoleOf(c, inv[i]))]
          /\ \A c \in Clients :
                (pc[c] = "mv_lock" /\ pc'[c] # "mv_scan" /\ pc'[c] # pc[c])
                    => /\ pc'[c] = "nack" /\ inv' = inv
                       /\ tlog'[c] = <<>>]_vars

C14_Witness ==
    \E c \in Clients :
        /\ pc[c] = "nack" /\ req[c].type = "MOVE" /\ Len(req[c].payload) = 4
        /\ RoleOf(c, inv[1]) = OnMove(Game(inv[1]))
        /\ Game(inv[1]).terminated = 0
        /\ "MOVE" \in hist[1]

\* C15: an INVITE whose payload names no logged-in session, or the requester
\* itself, is answered with NACK and creates no invitation: an INVITE that
\* has created an invitation or is ACKed names another session that is
\* registered and logged in under the name of the payload; the source and
\* the target of every invitation are distinct, and a session that has an
\* invitation in its list is its source or its target.
C15_InviteTarget ==
    /\ \A c \in Clients :
          (req[c].type = "INVITE" /\ (loc[c].inv # NULL \/ pc[c] = "ack")) =>
              LET i == loc[c].inv
              IN  /\ i # NULL
                  /\ inv[i].sender = c /\ inv[i].recipient # c
                  /\ inv[i].recipient \in Range(creg)
                  /\ logged_in[inv[i].recipient]
                  /\ player_get_name(player[inv[i].recipient]) = req[c].payload
    /\ \A i \in InvIds : Live(i) => inv[i].sender # inv[i].recipient
    /\ \A c \in Clients : \A k \in 1..Len(list[c]) :
          c \in {inv[list[c][k]].sender, inv[list[c][k]].recipient}

C15_Witness ==
    \E c, d \in Clients :
        /\ pc[c] = "brk" /\ req[c].type = "INVITE"
        /\ tlog[c][1].type = "NACK" /\ ninv = 0
        /\ req[c].payload = Name(d) /\ ~logged_in[d]

\* C16: the id given to a new handle is the smallest non-negative integer
\* that no handle in the session's list uses (a freed id is used again, the
\* first handle gets 0), and the ids in one session's list are pairwise
\* distinct in every state, also when several threads add to the list.
C16_LowestFreeId ==
    [][\A c \in Clients :
          /\ \A i \in InvIds :
                (~InList(c, i) /\ InList(c, i)') =>
                    /\ nid'[c][i] >= 0
                    /\ nid'[c][i] \notin UsedIds(c)
                    /\ \A j \in 0..(nid'[c][i] - 1) : j \in UsedIds(c)
          /\ Cardinality(UsedIds(c)') = Len(list'[c])]_vars

C16_Witness ==
    \E c \in Clients :
        /\ Len(list[c]) = 2
        /\ nid[c][list[c][1]] = 0 /\ nid[c][list[c][2]] = 1
        /\ list[c][1] > list[c][2]

\* the ACK a thread has sent for the request at hand
Acks(c) == SelectSeq(tlog[c], LAMBDA f : f.type = "ACK")

\* C17: a successful INVITE whose header role r is 1 or 2 creates an
\* invitation whose target role is r and whose source role is the other
\* one, so that one of the two is FIRST and the other SECOND; INVITED
\* carries role r and the ACK the source's local id; an INVITE with another
\* role value is NACKed and creates no invitation.
C17_InviteRoles ==
    /\ \A c \in Clients :
          req[c].type = "INVITE" =>
              LET i == loc[c].inv
              IN  /\ (i # NULL \/ pc[c] = "ack" \/ Acks(c) # <<>>) =>
                        /\ i # NULL /\ req[c].role \in Roles
                        /\ inv[i].target_role = req[c].role
                        /\ inv[i].source_role = Other(req[c].role)
                  /\ \A k \in 1..Len(tlog[c]) :
                        /\ tlog[c][k].type = "INVITED" =>
                              tlog[c][k].role = req[c].role
                              /\ tlog[c][k].to = inv[i].recipient
                        /\ tlog[c][k].type = "ACK" =>
                              tlog[c][k].id = nid[c][i] /\ InList(c, i)
    /\ \A i \in InvIds :
          Live(i) => {inv[i].source_role, inv[i].target_role} = Roles

C17_Witness ==
    \E c, d \in Clients :
        /\ req[c].type = "INVITE" /\ req[c].role = 1 /\ pc[c] = "brk"
        /\ Acks(c) # <<>> /\ inv[loc[c].inv].source_role = SECOND_PLAYER_ROLE
        /\ req[d].type = "INVITE" /\ req[d].role = 3 /\ pc[d] = "brk"
        /\ req[d].payload = Name(c) /\ tlog[d][1].type = "NACK"

\* C18: on every successful ACCEPT exactly one of the two messages carries
\* the initial board: the ACCEPTED notification sent to the source has the
\* board of a new game as payload iff the source plays FIRST, and the ACK
\* to the accepting target has it iff the target plays FIRST; the other
\* message has no payload.
InitialBoard == game_unparse_state(game_create)
Accepteds(c) == SelectSeq(tlog[c], LAMBDA f : f.type = "ACCEPTED")
C18_BoardToFirst ==
    \A c \in Clients :
        (req[c].type = "ACCEPT" /\ Acks(c) # <<>>) =>
            LET v == inv[loc[c].inv]
                a == Accepteds(c)
                k == Acks(c)
            IN  /\ Len(a) = 1 /\ Len(k) = 1
                /\ a[1].to = v.sender /\ k[1].to = c /\ v.recipient = c
                /\ a[1].data = IF v.source_role = FIRST_PLAYER_ROLE
                               THEN InitialBoard ELSE <<>>
                /\ k[1].data = IF v.target_role = FIRST_PLAYER_ROLE
                               THEN InitialBoard ELSE <<>>
                /\ (a[1].data = InitialBoard) # (k[1].data = InitialBoard)
                /\ Len(InitialBoard) > 0

C18_Witness ==
    \E c \in Clients :
        /\ req[c].type = "ACCEPT" /\ pc[c] = "brk" /\ Len(Acks(c)) = 1
        /\ inv[loc[c].inv].target_role = FIRST_PLAYER_ROLE
        /\ Acks(c)[1].data = InitialBoard /\ Accepteds(c)[1].data = <<>>

\* C19: a game in which nine legal moves have been applied without either
\* side completing a line is over with no winner, and every ENDED
\* notification sent for it carries role 0.
DrawnGame(g) == g.num_turns = MAX_BOARD_NUM /\ ~win(g.board, 1) /\ ~win(g.board, 2)
C19_DrawHasNoWinner ==
    \A i \in InvIds :
        (HasGame(inv[i]) /\ DrawnGame(Game(inv[i]))) =>
            /\ game_is_over(Game(inv[i])) = 1
            /\ game_get_winner(Game(inv[i])) = NULL_ROLE
            /\ \A c \in Clients : \A k \in 1..Len(tlog[c]) :
                  (tlog[c][k].type = "ENDED" /\ tlog[c][k].inv = i) =>
                      tlog[c][k].role = NULL_ROLE

\* C20: when the write of a notification to a peer fails after the state
\* change of an INVITE, REVOKE, DECLINE, ACCEPT, MOVE or RESIGN has been
\* made, the request does not fail: its requester is on the way to an ACK
\* and never to a NACK.
WriteFailed(c) == \E k \in 1..Len(tlog[c]) : tlog[c][k].type = "EPIPE" /\ tlog[c][k].to # c
C20_AckDespiteFailedWrite ==
    \A c \in Clients :
        (WriteFailed(c) /\ ~loc[c].cascade
           /\ req[c].type \in {"INVITE", "REVOKE", "DECLINE", "ACCEPT", "MOVE", "RESIGN"})
        => /\ pc[c] # "nack"
           /\ \A k \in 1..Len(tlog[c]) : tlog[c][k].type # "NACK"

\* C21: a well-framed packet whose type is not a client request type is
\* answered with NACK to the requester (and the session reads on): when the
\* switch is left for such a packet, a NACK has been sent to the session.
C21_UnknownTypeNacked ==
    \A c \in Clients :
        (pc[c] = "brk" /\ req[c].type \in OtherTypes) =>
            \E k \in 1..Len(tlog[c]) : tlog[c][k].type = "NACK" /\ tlog[c][k].to = c

\* C22: logout is idempotent: the logout that the service loop makes when
\* its connection has ended, of a session that the shutdown has already
\* logged out, changes nothing, and in particular releases no reference to
\* a PLAYER; the logout of a session that never logged in returns an error
\* and changes nothing.
LoggedOutByShutdown(c) == \E m \in Mains : c \in mloc[m].out
C22_LogoutIdempotent ==
    [][\A c \in Clients :
          (pc[c] = "lo_chk" /\ pc'[c] # "lo_chk"
             /\ (LoggedOutByShutdown(c) \/ ~logged_in[c]))
          => /\ players' = players
             /\ pc'[c] = "unreg"]_vars

\* C23: after the shutdown has shut the sockets of the registered sessions,
\* every service loop sees the end of its stream, makes its own logout and
\* unregisters its own session, and creg_wait_for_empty returns in
\* terminate only after all of them have done so: once it has returned,
\* every service thread has left its loop and no session is registered.
C23_WaitsForServiceLoops ==
    \A m \in Mains :
        mpc[m] \in {"waited", "exited"} =>
            /\ creg = <<>>
            /\ \A c \in Clients : sock[c] = "shut" => pc[c] = "exit"

\* C24: a call of creg_wait_for_empty never returns while the number of
\* registered sessions is greater than zero, after any sequence of register,
\* unregister and earlier creg_wait_for_empty calls: the step out of P is
\* taken with an empty registry only.
C24_ReturnsOnlyWhenEmpty ==
    [][\A m \in Mains :
          (mpc[m] = "wf_P" /\ mpc'[m] # "wf_P") => Len(creg) = 0]_vars

\* C25: when several threads are blocked in creg_wait_for_empty and the
\* count of registered sessions reaches zero, every one of them returns in
\* the end: a thread in P with an empty registry leaves P, unless a new
\* session registers first.
C25_EveryWaiterReturns ==
    \A m \in Mains :
        (mpc[m] = "wf_P" /\ Len(creg) = 0) ~> (mpc[m] # "wf_P" \/ Len(creg) > 0)

\* C26: the registry never holds more than MAX_CLIENTS sessions nor two
\* sessions with the same file descriptor; a creg_register that finds fewer
\* than MAX_CLIENTS sessions adds its own, up to the MAX_CLIENTS-th, and one
\* that finds MAX_CLIENTS sessions fails and leaves the registry as it was,
\* also when threads register at the same time.
NoTwoSame(s) == \A i, j \in 1..Len(s) : s[i] = s[j] => i = j
C27_RefusedIsClosed ==
    [][\A c \in Clients :
          (pc[c] = "start" /\ pc'[c] = "exit") =>
              /\ sock'[c] = "closed"
              /\ tlog' = tlog]_vars

\* C28: the frames that different threads write to the socket of one session
\* never interleave: on every socket each header with a payload is followed
\* at once by the payload of the same thread, each payload follows its header,
\* and a header whose payload is still to come was written by the thread that
\* holds the lock of the session.
WellFramed(w) ==
    \A i \in 1..Len(w) :
        /\ (w[i].part = "hdr" /\ w[i].size > 0 /\ i < Len(w)) =>
               w[i + 1] = Chunk(w[i].by, "data", w[i].size)
        /\ w[i].part = "data" =>
               (i > 1 /\ w[i - 1] = Chunk(w[i].by, "hdr", w[i].size))
C28_FramesWhole ==
    \A c \in Clients :
        /\ WellFramed(wire[c])
        /\ (wire[c] # <<>> /\ wire[c][Len(wire[c])].part = "hdr"
               /\ wire[c][Len(wire[c])].size > 0) =>
              lock[c] = wire[c][Len(wire[c])].by

\* two threads have each written a whole frame with a payload to one socket
C28_Witness ==
    \E c \in Clients : \E t, u \in Clients :
        /\ t # u
        /\ wire[c] = <<Chunk(t, "hdr", 1), Chunk(t, "data", 1),
                       Chunk(u, "hdr", 1), Chunk(u, "data", 1)>>

\* C29: a PLAYER is never destroyed while the process runs: the reference
\* count of every registered PLAYER stays at least 1 after any sequence of
\* logins, logouts, disconnections and shutdown.
C29_PlayerKept ==
    \A p \in 1..Len(players) : players[p].ref_count >= 1

\* C30: every PLAYER has a name that is not empty and that no other PLAYER
\* of the registry has; a LOGIN whose payload has size 0 creates no PLAYER
\* and binds none to the session.
C30_NamesNonEmptyUnique ==
    /\ \A p \in 1..Len(players) : players[p].name # EmptyName
    /\ \A p, q \in 1..Len(players) : players[p].name = players[q].name => p = q
    /\ \A c \in Clients :
          (logged_in[c] /\ player[c] # NULL) => player_get_name(player[c]) # EmptyName

\* C31: the reference count of a session, an invitation or a player reaches
\* zero at most once and the object is destroyed then; no thread reads,
\* writes or decrements the object afterwards: no count goes below zero and
\* no thread stands before an access to a session or an invitation that has
\* been freed.
C31_NoUseAfterRelease ==
    /\ \A c \in Clients : cref[c] >= 0 /\ ~DanglingAt(c)
    /\ \A p \in 1..Len(players) : players[p].ref_count >= 0
    /\ \A i \in InvIds : inv[i].ref_count >= 0

\* C32: once the service loop of a session has ended, no invitation refers
\* to the session any more and no other thread is at work on a request, the
\* reference count of the session is zero: the reference that creg_lookup
\* took for an INVITE has been released, the INVITE answered by ACK or NACK.
Quiet(t) == pc[t] \in {"read", "exit"} /\ loc[t].fr = 0
RefersTo(i, c) == Live(i) /\ (inv[i].sender = c \/ inv[i].recipient = c)
C32_SessionReleased ==
    \A c \in Clients :
        (/\ pc[c] = "exit"
         /\ \A t \in Clients : Quiet(t)
         /\ \A i \in InvIds : ~RefersTo(i, c)) => cref[c] = 0

\* C33: no interleaving of requests of different sessions deadlocks on the
\* session guards: there are never two threads that each hold the guard of
\* their own session and wait, in client_send_packet, for the guard of the
\* other, a state no thread of the two leaves and in which neither request
\* gets its ACK or NACK.
SendsUnderLock == {"mi_send", "dc_send", "ac_send", "mv_send", "mv_end1"}
WaitsFor(t) == IF pc[t] \in SendsUnderLock THEN loc[t].target ELSE NULL
C33_NoGuardDeadlock ==
    \A a, b \in Clients :
        ~(/\ a # b
          /\ lock[a] = a /\ WaitsFor(a) = b
          /\ lock[b] = b /\ WaitsFor(b) = a)

\* C34: a thread has released the guard of its own session before it
\* acquires the guard of the peer, for a list mutation or for a
\* notification: a step that sends a frame to another session, which takes
\* the guard of that session in client_send_packet, is made by a thread that
\* does not hold the guard of its own session.
SentTo(t) == tlog'[t][Len(tlog'[t])].to
C34_OneGuardAtATime ==
    [][\A t \in Clients :
          (Len(tlog'[t]) = Len(tlog[t]) + 1 /\ SentTo(t) # t) => lock[t] # t]_vars

\* C35: the guards are acquired in the order registry, session, invitation,
\* player: a thread that takes the mutex of the client registry holds the
\* guard of no session, and a thread that takes the guard of a session, as
\* client_unref does, is not inside inv_unref with the guard of an invitation.
TakesRegistry == {"start", "lg_chk1", "lg_chk2", "iv_lk1", "unreg"}
C35_GuardOrder ==
    [][\A t \in Clients :
          /\ (pc[t] \in TakesRegistry /\ pc'[t] # pc[t]) =>
                 \A d \in Clients : lock[d] # t
          /\ (cref' # cref /\ loc'[t] # loc[t]) => loc[t].fr = 0]_vars

\* C36: creg_shutdown_all only half-closes the read side of the socket of
\* every registered session: its steps leave the registered sessions and
\* their number, the logged-in status and the list of every session and
\* every reference count as they are.
InShutdownAll(m) == mpc[m] \in {"sd_loop", "sd_logout", "sd_unreg", "sd_unreg2"}
C36_ShutdownOnlyHalfCloses ==
    [][\A m \in Mains :
          (InShutdownAll(m) /\ mpc'[m] # mpc[m]) =>
              UNCHANGED <<creg, logged_in, list, cref, players, inv>>]_vars

\* C37: when a move ends the game, by a win or a draw, the invitation goes
\* from ACCEPTED to CLOSED as it is removed from the lists of both sessions:
\* an invitation whose game is over and that is in no list is CLOSED.
C37_EndedGameCloses ==
    \A i \in InvIds :
        (/\ HasGame(inv[i])
         /\ game_is_over(Game(inv[i])) = 1
         /\ \A c \in Clients : ~InList(c, i)) => inv[i].state = "CLOSED"

\* C38: a creg_unregister for a session that is not registered, such as the
\* one a service thread makes after creg_shutdown_all has unregistered its
\* session, fails, leaves the registry as it is and releases the mutex of
\* the registry: no thread that has left creg_unregister holds the mutex.
C38_UnregisterReleasesMutex ==
    /\ \A c \in Clients : pc[c] = "exit" => creg_mutex # c
    /\ \A m \in Mains : mpc[m] \in {"sd_loop", "wf_flag", "wf_chk", "wf_P", "waited", "exited"}
                             => creg_mutex # Tid(m)

\* C39: when a request is answered with NACK the lists of both sessions,
\* the state of the invitation and the board are as they were before the
\* request: no operation fails from a position it reaches only after it has
\* itself unlinked a list node, accepted the invitation or applied a move.
AfterChange ==
    {"rv_rm_t", "rv_send", "dc_rm_s", "dc_lock", "dc_send", "ac_scan", "ac_send",
     "mi_send", "mv_send", "mv_end1"}
C39_NackChangesNothing ==
    [][\A c \in Clients :
          (pc'[c] = "nack" /\ pc[c] # "nack") => pc[c] \notin AfterChange]_vars

\* C40: once the logout cascade and the unregister of a session are over (its
\* service thread has left, no other request is under way), no list of any
\* session holds an invitation whose source or target is that session.
C40_NoInvitationOfGoneSession ==
    \A c \in Clients :
        (pc[c] = "exit" /\ \A t \in Clients : Quiet(t))
            => \A d \in Clients : \A i \in Range(list[d]) :
                   inv[i].sender # c /\ inv[i].recipient # c
====
